---- MODULE Spec2Model ----
(***************************************************************************)
(* State-machine model of PersistentStorage (src/src/PersistentStorage.cpp *)
(* and src/include/PersistentStorage.h): a registry of named, typed        *)
(* parameters that live in caller memory, persisted through the ESP32      *)
(* Preferences (NVS) key-value store and published through MQTT.           *)
(*                                                                         *)
(* Strings (parameter names, NVS keys, string values) are sequences of     *)
(* character codes; blobs are sequences of bytes.                          *)
(***************************************************************************)
EXTENDS Integers, Sequences, FiniteSets, TLC, Bags

(***************************************************************************)
(* Bounds of the model.                                                    *)
(***************************************************************************)
\* capacity in chars (terminator included) of the caller's string buffers
StrCap == 3
\* size in bytes of the caller's blob buffers
BlobCap == 5

(***************************************************************************)
(* Program constants.                                                      *)
(***************************************************************************)
\* validateParameterName: name.length() > 64 is rejected
MaxNameLen == 64
\* sanitizeNvsKey: names of at most 15 chars are used verbatim
MaxKeyLen == 15
\* sanitizeNvsKey: hash = hash * 31 + c
HashMul == 31
\* sizeof(float): Preferences stores a float as a 4-byte blob
SizeofFloat == 4

(***************************************************************************)
(* Result codes (PersistentStorage::Result).                               *)
(***************************************************************************)
SUCCESS == "SUCCESS"
ERROR_NOT_FOUND == "ERROR_NOT_FOUND"
ERROR_TYPE_MISMATCH == "ERROR_TYPE_MISMATCH"
ERROR_ACCESS_DENIED == "ERROR_ACCESS_DENIED"
ERROR_VALIDATION_FAILED == "ERROR_VALIDATION_FAILED"
ERROR_NVS_FAIL == "ERROR_NVS_FAIL"
ERROR_INVALID_NAME == "ERROR_INVALID_NAME"
ERROR_TOO_LARGE == "ERROR_TOO_LARGE"

TYPE_BOOL == "TYPE_BOOL"
TYPE_INT == "TYPE_INT"
TYPE_FLOAT == "TYPE_FLOAT"
TYPE_STRING == "TYPE_STRING"
TYPE_BLOB == "TYPE_BLOB"

ACCESS_READ_ONLY == "ACCESS_READ_ONLY"
ACCESS_READ_WRITE == "ACCESS_READ_WRITE"

(***************************************************************************)
(* Characters and strings.                                                 *)
(***************************************************************************)
Str(n, c) == [i \in 1..n |-> c]

\* isalnum() in the "C" locale
isalnum(c) == (c >= 48 /\ c <= 57) \/ (c >= 65 /\ c <= 90) \/ (c >= 97 /\ c <= 122)

\* the loop of validateParameterName over name[i..]
RECURSIVE NameCharsOk(_, _)
NameCharsOk(name, i) ==
    IF i > Len(name) THEN TRUE
    ELSE IF ~isalnum(name[i]) /\ name[i] # 95 /\ name[i] # 47 THEN FALSE
    ELSE NameCharsOk(name, i + 1)

\* a plausible slip: the length test written >= instead of >
validateParameterName_offByOne(name) ==
    IF Len(name) = 0 \/ Len(name) >= MaxNameLen THEN FALSE
    ELSE NameCharsOk(name, 1)

validateParameterName(name) ==
    IF Len(name) = 0 \/ Len(name) > MaxNameLen THEN FALSE
    ELSE NameCharsOk(name, 1)

(***************************************************************************)
(* sanitizeNvsKey.  The 32-bit hash is kept as two 16-bit halves           *)
(* <<hi, lo>> so that hash * 31 + c wraps modulo 2^32 exactly.             *)
(***************************************************************************)
RECURSIVE HashFrom(_, _, _)
HashFrom(name, i, hash) ==
    IF i > Len(name) THEN hash
    ELSE LET lo == hash[2] * HashMul + name[i]
             hi == hash[1] * HashMul + (lo \div 65536)
             next == <<hi % 65536, lo % 65536>>
             \* next[1] >= 0 always holds: testing it evaluates next before
             \* the following iteration instead of nesting 64 pending values
         IN  IF next[1] >= 0 THEN HashFrom(name, i + 1, next) ELSE next

\* "%lu" of the 32-bit value <<hi, lo>>: decimal digits, most significant first
RECURSIVE Decimal(_)
Decimal(w) ==
    LET qhi == w[1] \div 10
        t   == (w[1] % 10) * 65536 + w[2]
        qlo == t \div 10
        d   == t % 10
    IN  IF qhi = 0 /\ qlo = 0 THEN <<48 + d>>
        ELSE Append(Decimal(<<qhi, qlo>>), 48 + d)

\* a plausible slip: the long name is cut to the length of a key
sanitizeNvsKey_cut(name) == 
    IF Len(name) <= MaxKeyLen THEN name ELSE SubSeq(name, 1, MaxKeyLen)

sanitizeNvsKey(name) ==
    IF Len(name) <= MaxKeyLen THEN name
    ELSE <<112>> \o Decimal(HashFrom(name, 1, <<0, 0>>))

\* strcmp order of std::string keys in std::map
RECURSIVE StrLess(_, _)
StrLess(a, b) ==
    IF Len(b) = 0 THEN FALSE
    ELSE IF Len(a) = 0 THEN TRUE
    ELSE IF a[1] # b[1] THEN a[1] < b[1]
    ELSE StrLess(Tail(a), Tail(b))

(***************************************************************************)
(* Values.  One tagged variant serves caller memory cells, JSON scalars    *)
(* (doc["value"]) and callback arguments: t is the tag, the other fields   *)
(* hold the payload of that tag and are zero otherwise.  A float is the    *)
(* number h/2 (so 0.5 steps are exact) or NaN.  s holds the characters of  *)
(* a string or the bytes of a blob.                                        *)
(***************************************************************************)
NullV == [t |-> "null", b |-> FALSE, i |-> 0, nan |-> FALSE, h |-> 0, s |-> <<>>]
BoolV(x) == [NullV EXCEPT !.t = "bool", !.b = x]
IntV(x) == [NullV EXCEPT !.t = "int", !.i = x]
FloatV(x) == [NullV EXCEPT !.t = "float", !.h = x]
NaNV == [NullV EXCEPT !.t = "float", !.nan = TRUE]
StrV(x) == [NullV EXCEPT !.t = "string", !.s = x]
BlobV(x) == [NullV EXCEPT !.t = "blob", !.s = x]

\* C++ operator< and operator> on float: false when either side is NaN
FloatLess(x, y) == ~x.nan /\ ~y.nan /\ x.h < y.h

\* static_cast<int32_t>(float): truncation toward zero
Trunc(h) == IF h >= 0 THEN h \div 2 ELSE -((-h) \div 2)

(***************************************************************************)
(* ArduinoJson: JsonVariant::isNull() and as<T>() of doc["value"].         *)
(***************************************************************************)
IsDigits(s) == Len(s) > 0 /\ \A k \in 1..Len(s) : s[k] >= 48 /\ s[k] <= 57

RECURSIVE DigitsValue(_, _)
DigitsValue(s, acc) ==
    IF Len(s) = 0 THEN acc ELSE DigitsValue(Tail(s), acc * 10 + (Head(s) - 48))

\* parseNumber() of a string variant: an optionally signed decimal, else 0
ParseNumber(s) ==
    IF IsDigits(s) THEN DigitsValue(s, 0)
    ELSE IF Len(s) > 1 /\ s[1] = 45 /\ IsDigits(Tail(s)) THEN -DigitsValue(Tail(s), 0)
    ELSE 0

isNull(v) == v.t = "null"

AsBool(v) ==
    CASE v.t = "bool" -> v.b
      [] v.t = "int" -> v.i # 0
      [] v.t = "float" -> v.nan \/ v.h # 0
      [] v.t = "null" -> FALSE
      [] OTHER -> TRUE

AsInt32(v) ==
    CASE v.t = "bool" -> IF v.b THEN 1 ELSE 0
      [] v.t = "int" -> v.i
      [] v.t = "float" -> IF v.nan THEN 0 ELSE Trunc(v.h)
      [] v.t = "string" -> ParseNumber(v.s)
      [] OTHER -> 0

AsFloat(v) ==
    CASE v.t = "bool" -> FloatV(IF v.b THEN 2 ELSE 0)
      [] v.t = "int" -> FloatV(2 * v.i)
      [] v.t = "float" -> v
      [] v.t = "string" -> FloatV(2 * ParseNumber(v.s))
      [] OTHER -> FloatV(0)

\* as<const char*>(): nullptr unless the variant holds a string
AsCStrIsNull(v) == v.t # "string"
AsCStr(v) == v.s

(***************************************************************************)
(* IEEE-754 single precision, little endian: the 4 bytes Preferences       *)
(* stores for a float (putFloat is putBytes(key, &value, sizeof(float))).  *)
(***************************************************************************)
RECURSIVE Log2(_)
Log2(m) == IF m <= 1 THEN 0 ELSE 1 + Log2(m \div 2)

RECURSIVE Pow2(_)
Pow2(n) == IF n = 0 THEN 1 ELSE 2 * Pow2(n - 1)

\* <<sign, exponent field, 23-bit mantissa>> of the float h/2
FloatFields(x) ==
    IF x.nan THEN <<0, 255, 4194304>>
    ELSE IF x.h = 0 THEN <<0, 0, 0>>
    ELSE LET m == IF x.h < 0 THEN -x.h ELSE x.h
             e == Log2(m)
         IN  <<IF x.h < 0 THEN 1 ELSE 0, 126 + e, (m - Pow2(e)) * Pow2(23 - e)>>

FloatBytes(x) ==
    LET f == FloatFields(x)
    IN  << f[3] % 256,
           (f[3] \div 256) % 256,
           (f[2] % 2) * 128 + (f[3] \div 65536),
           f[1] * 128 + (f[2] \div 2) >>

\* the float whose 4 bytes are bs (a half-integer of modest size, 0 or NaN)
BytesFloat(bs) ==
    LET sign == bs[4] \div 128
        ex   == (bs[4] % 128) * 2 + (bs[3] \div 128)
        mant == (bs[3] % 128) * 65536 + bs[2] * 256 + bs[1]
        e    == ex - 126
        m    == Pow2(e) + (mant \div Pow2(23 - e))
    IN  IF ex = 255 THEN NaNV
        ELSE IF ex = 0 THEN FloatV(0)
        ELSE IF e < 0 \/ e > 23 THEN NaNV
        ELSE FloatV(IF sign = 1 THEN -m ELSE m)

(***************************************************************************)
(* Preferences (NVS).  The store maps a key to one typed entry: t is the   *)
(* NVS type, i the number of a "u8" or "i32" entry, s the characters of a  *)
(* "str" entry or the bytes of a "blob" entry.  A get of another type than *)
(* the entry's fails and yields the default.  A put fails (returns 0) when *)
(* the namespace is not open or when NVS refuses the write (ok = FALSE);   *)
(* otherwise it returns the number of bytes written.                       *)
(***************************************************************************)
NvsEntry(t, i, bs) == [t |-> t, i |-> i, s |-> bs]

NvsPut(store, key, e) ==
    [k \in (DOMAIN store) \cup {key} |-> IF k = key THEN e ELSE store[k]]

NvsRemove(store, key) == [k \in (DOMAIN store) \ {key} |-> store[k]]

NvsHas(store, key, t) == key \in DOMAIN store /\ store[key].t = t

putBool(store, open, key, b, ok) ==
    IF open /\ ok
    THEN [nvs |-> NvsPut(store, key, NvsEntry("u8", IF b THEN 1 ELSE 0, <<>>)), ret |-> 1]
    ELSE [nvs |-> store, ret |-> 0]

putInt(store, open, key, i, ok) ==
    IF open /\ ok
    THEN [nvs |-> NvsPut(store, key, NvsEntry("i32", i, <<>>)), ret |-> 4]
    ELSE [nvs |-> store, ret |-> 0]

putBytes(store, open, key, bs, ok) ==
    IF open /\ ok /\ Len(bs) # 0
    THEN [nvs |-> NvsPut(store, key, NvsEntry("blob", 0, bs)), ret |-> Len(bs)]
    ELSE [nvs |-> store, ret |-> 0]

putFloat(store, open, key, x, ok) == putBytes(store, open, key, FloatBytes(x), ok)

\* returns strlen(value): 0 for the empty string although it is stored
putString(store, open, key, str, ok) ==
    IF open /\ ok
    THEN [nvs |-> NvsPut(store, key, NvsEntry("str", 0, str)), ret |-> Len(str)]
    ELSE [nvs |-> store, ret |-> 0]

getBool(store, open, key, def) ==
    IF open /\ NvsHas(store, key, "u8") THEN store[key].i # 0 ELSE def

getInt(store, open, key, def) ==
    IF open /\ NvsHas(store, key, "i32") THEN store[key].i ELSE def

getBytesLength(store, open, key) ==
    IF open /\ NvsHas(store, key, "blob") THEN Len(store[key].s) ELSE 0

\* getBytes(key, buf, maxLen): copies the stored bytes over the head of buf
\* unless there are none or more than maxLen
getBytes(store, open, key, buf, maxLen) ==
    LET len == getBytesLength(store, open, key)
    IN  IF len = 0 \/ len > maxLen THEN buf
        ELSE [k \in 1..Len(buf) |-> IF k <= len THEN store[key].s[k] ELSE buf[k]]

getFloat(store, open, key, def) ==
    BytesFloat(getBytes(store, open, key, FloatBytes(def), SizeofFloat))

\* getString(key, buf, maxLen): the stored length counts the terminator
getString(store, open, key, buf, maxLen) ==
    IF open /\ maxLen # 0 /\ NvsHas(store, key, "str") /\ Len(store[key].s) + 1 <= maxLen
    THEN store[key].s
    ELSE buf

(***************************************************************************)
(* The registry parameters_ is a std::map<std::string, ParameterInfo>,     *)
(* modelled as the sequence of its entries in iteration (key) order.       *)
(***************************************************************************)
NoRange == [min |-> 0, max |-> 0]
NoFloatRange == [min |-> FloatV(0), max |-> FloatV(0)]

\* a ParameterInfo as the register functions fill it: the callbacks of a
\* fresh ParameterInfo are empty
ParameterInfo(name, type, access, dataPtr, size, intRange, floatRange, maxLen) ==
    [name |-> name, type |-> type, access |-> access, dataPtr |-> dataPtr,
     size |-> size, intRange |-> intRange, floatRange |-> floatRange,
     stringMax |-> maxLen, onChange |-> FALSE, validator |-> "none"]

NoInfo == ParameterInfo(<<>>, "none", "none", "none", 0, NoRange, NoFloatRange, 0)

\* parameters_.find(name): the position of the entry, 0 for end()
MapFind(m, name) ==
    IF \E k \in 1..Len(m) : m[k].name = name
    THEN CHOOSE k \in 1..Len(m) : m[k].name = name
    ELSE 0

\* a plausible slip: a container that appends instead of replacing
MapAssign_append(m, name, info) == Append(m, info)

\* parameters_[name] = info: replaces the entry of an existing key, else
\* inserts a new entry at its place in key order
MapAssign(m, name, info) ==
    LET at == MapFind(m, name)
        lo == SelectSeq(m, LAMBDA e : StrLess(e.name, name))
        hi == SelectSeq(m, LAMBDA e : StrLess(name, e.name))
    IN  IF at # 0 THEN [m EXCEPT ![at] = info]
        ELSE lo \o <<info>> \o hi

(***************************************************************************)
(* loadParameter and saveParameter.  memory maps a caller address to the   *)
(* value of the cell there; param.dataPtr is such an address.              *)
(***************************************************************************)
loadParameter(param, memory, store, open) ==
    LET key  == sanitizeNvsKey(param.name)
        cell == memory[param.dataPtr]
        len  == getBytesLength(store, open, key)
        new  == CASE param.type = TYPE_BOOL ->
                       BoolV(getBool(store, open, key, cell.b))
                  [] param.type = TYPE_INT ->
                       IntV(getInt(store, open, key, cell.i))
                  [] param.type = TYPE_FLOAT ->
                       getFloat(store, open, key, cell)
                  [] param.type = TYPE_STRING ->
                       StrV(getString(store, open, key, cell.s, param.size))
                  [] param.type = TYPE_BLOB ->
                       IF len > 0 /\ len <= param.size
                       THEN BlobV(getBytes(store, open, key, cell.s, param.size))
                       ELSE cell
    IN  [mem |-> [memory EXCEPT ![param.dataPtr] = new], res |-> SUCCESS]

saveParameter(param, memory, store, open, ok) ==
    LET key  == sanitizeNvsKey(param.name)
        cell == memory[param.dataPtr]
        r    == CASE param.type = TYPE_BOOL -> putBool(store, open, key, cell.b, ok)
                  [] param.type = TYPE_INT -> putInt(store, open, key, cell.i, ok)
                  [] param.type = TYPE_FLOAT -> putFloat(store, open, key, cell, ok)
                  [] param.type = TYPE_STRING -> putString(store, open, key, cell.s, ok)
                  [] param.type = TYPE_BLOB ->
                       putBytes(store, open, key, SubSeq(cell.s, 1, param.size), ok)
    IN  [nvs |-> r.nvs, res |-> IF r.ret # 0 THEN SUCCESS ELSE ERROR_NVS_FAIL]

\* the loop of saveAll from entry k on; oks[k] tells whether NVS accepts the
\* k-th write
RECURSIVE saveAllFrom(_, _, _, _, _, _, _)
saveAllFrom(m, k, memory, store, open, oks, lastResult) ==
    IF k > Len(m) THEN [nvs |-> store, res |-> lastResult]
    ELSE LET r == saveParameter(m[k], memory, store, open, oks[k])
         IN  saveAllFrom(m, k + 1, memory, r.nvs, open, oks,
                         IF r.res = SUCCESS THEN lastResult ELSE r.res)

\* the loop of loadAll from entry k on
RECURSIVE loadAllFrom(_, _, _, _, _, _, _)
loadAllFrom(m, k, memory, store, open, loadedCount, lastResult) ==
    IF k > Len(m) THEN [mem |-> memory, loadedCount |-> loadedCount, res |-> lastResult]
    ELSE LET r == loadParameter(m[k], memory, store, open)
         IN  loadAllFrom(m, k + 1, r.mem, store, open,
                         IF r.res = SUCCESS THEN loadedCount + 1 ELSE loadedCount,
                         IF r.res = SUCCESS THEN lastResult ELSE r.res)

(***************************************************************************)
(* jsonToParameter, first half: conversion of doc["value"] and the range   *)
(* check.  res = SUCCESS means that newVal is written to caller memory.    *)
(***************************************************************************)
IntOutOfRange(newVal, range) == newVal < range.min \/ newVal > range.max

FloatOutOfRange(newVal, range) ==
    FloatLess(newVal, range.min) \/ FloatLess(range.max, newVal)

\* a plausible slip: > instead of >=, which forgets the terminator
StringTooLong_noTerminator(newVal, maxLen) == Len(newVal) > maxLen

StringTooLong(newVal, maxLen) == Len(newVal) >= maxLen

\* a plausible slip: a blob is filled with the byte the document converts to
jsonConvert_blob(param, doc) ==
    IF isNull(doc) THEN [res |-> ERROR_VALIDATION_FAILED, newVal |-> NullV]
    ELSE CASE param.type = TYPE_BOOL ->
                [res |-> SUCCESS, newVal |-> BoolV(AsBool(doc))]
           [] param.type = TYPE_INT ->
                IF IntOutOfRange(AsInt32(doc), param.intRange)
                THEN [res |-> ERROR_VALIDATION_FAILED, newVal |-> NullV]
                ELSE [res |-> SUCCESS, newVal |-> IntV(AsInt32(doc))]
           [] param.type = TYPE_FLOAT ->
                IF FloatOutOfRange(AsFloat(doc), param.floatRange)
                THEN [res |-> ERROR_VALIDATION_FAILED, newVal |-> NullV]
                ELSE [res |-> SUCCESS, newVal |-> AsFloat(doc)]
           [] param.type = TYPE_STRING ->
                IF AsCStrIsNull(doc) \/ StringTooLong(AsCStr(doc), param.stringMax)
                THEN [res |-> ERROR_VALIDATION_FAILED, newVal |-> NullV]
                ELSE [res |-> SUCCESS, newVal |-> StrV(AsCStr(doc))]
           [] OTHER -> [res |-> SUCCESS,
                        newVal |-> BlobV(Str(param.size, AsInt32(doc) % 256))]

jsonConvert(param, doc) ==
    IF isNull(doc) THEN [res |-> ERROR_VALIDATION_FAILED, newVal |-> NullV]
    ELSE CASE param.type = TYPE_BOOL ->
                [res |-> SUCCESS, newVal |-> BoolV(AsBool(doc))]
           [] param.type = TYPE_INT ->
                IF IntOutOfRange(AsInt32(doc), param.intRange)
                THEN [res |-> ERROR_VALIDATION_FAILED, newVal |-> NullV]
                ELSE [res |-> SUCCESS, newVal |-> IntV(AsInt32(doc))]
           [] param.type = TYPE_FLOAT ->
                IF FloatOutOfRange(AsFloat(doc), param.floatRange)
                THEN [res |-> ERROR_VALIDATION_FAILED, newVal |-> NullV]
                ELSE [res |-> SUCCESS, newVal |-> AsFloat(doc)]
           [] param.type = TYPE_STRING ->
                IF AsCStrIsNull(doc) \/ StringTooLong(AsCStr(doc), param.stringMax)
                THEN [res |-> ERROR_VALIDATION_FAILED, newVal |-> NullV]
                ELSE [res |-> SUCCESS, newVal |-> StrV(AsCStr(doc))]
           [] OTHER -> [res |-> ERROR_TYPE_MISMATCH, newVal |-> NullV]

(***************************************************************************)
(* Validators are caller code reading the candidate through the pointer.   *)
(* "positive" is testValidator of the unit tests (val > 0), read for the   *)
(* other types as: a float > 0, a non-empty string, true.                  *)
(***************************************************************************)
Validator(id, cell) ==
    IF id = "positive"
    THEN CASE cell.t = "int" -> cell.i > 0
           [] cell.t = "float" -> ~cell.nan /\ cell.h > 0
           [] cell.t = "string" -> Len(cell.s) > 0
           [] cell.t = "bool" -> cell.b
           [] OTHER -> TRUE
    ELSE TRUE

\* a plausible slip: the rejected candidate is left in place
RestoreOld_forgotten(memory, ptr, oldValue) == memory

\* jsonToParameter, validator rejected: *dataPtr = *oldValue
RestoreOld(memory, ptr, oldValue) == [memory EXCEPT ![ptr] = oldValue]

(***************************************************************************)
(* Effects of a call on its collaborators, in the order they happen:       *)
(*   "put"      a Preferences write of v under key name (ok: accepted)     *)
(*   "onChange" the callback invoked with (name, v)                        *)
(*   "publish"  a status message for parameter name carrying v             *)
(***************************************************************************)
Ev(e, name, v, ok) == [e |-> e, name |-> name, v |-> v, ok |-> ok]

\* the "value" member parameterToJson emits (none for a blob)
parameterToJson(param, memory) ==
    IF param.type = TYPE_BLOB THEN NullV ELSE memory[param.dataPtr]

\* the "size" member parameterToJson emits for a blob
parameterToJsonSize(param) == param.size

notifyChange(m, name, memory) ==
    LET at == MapFind(m, name)
    IN  IF at # 0 /\ m[at].onChange
        THEN <<Ev("onChange", name, memory[m[at].dataPtr], TRUE)>>
        ELSE <<>>

publishUpdate(m, name, memory, mgr, conn, cb) ==
    LET at == MapFind(m, name)
    IN  IF ~cb /\ (~mgr \/ ~conn) THEN <<>>
        ELSE IF at = 0 THEN <<>>
        ELSE <<Ev("publish", name, parameterToJson(m[at], memory), TRUE)>>

\* a plausible slip: the observers are told before the store has the value
setJsonCommit_notifyFirst(m, name, memory, store, open, ok, mgr, conn, cb) ==
    LET at == MapFind(m, name)
        sv == saveParameter(m[at], memory, store, open, ok)
    IN  [nvs |-> sv.nvs,
         fx  |-> notifyChange(m, name, memory)
                 \o <<Ev("put", sanitizeNvsKey(name), memory[m[at].dataPtr], sv.res = SUCCESS)>>
                 \o (IF mgr THEN publishUpdate(m, name, memory, mgr, conn, cb) ELSE <<>>)]

\* setJson after jsonToParameter returned SUCCESS: save, notify, publish
setJsonCommit(m, name, memory, store, open, ok, mgr, conn, cb) ==
    LET at == MapFind(m, name)
        sv == saveParameter(m[at], memory, store, open, ok)
    IN  [nvs |-> sv.nvs,
         fx  |-> <<Ev("put", sanitizeNvsKey(name), memory[m[at].dataPtr], sv.res = SUCCESS)>>
                 \o notifyChange(m, name, memory)
                 \o (IF mgr THEN publishUpdate(m, name, memory, mgr, conn, cb) ELSE <<>>)]

(***************************************************************************)
(* State.                                                                  *)
(***************************************************************************)
VARIABLES
    initialized_,           \* PersistentStorage::initialized_
    nvsOpen,                \* preferences_ has an open namespace
    nvs,                    \* the entries of the NVS namespace
    parameters_,            \* the registry, in std::map iteration order
    mem,                    \* caller memory: address -> value of the cell
    mqttManager_,           \* an MQTTManager is attached
    mqttConnected,          \* what mqttManager_->isConnected() answers
    mqttPublishCallback_,   \* a publish function is set
    pc,                     \* "idle", or "validate" inside param.validator()
    cur,                    \* the call in progress or last returned
    snap,                   \* caller memory as it was at the last saveAll()
    commandQueue_,          \* the commands queued, oldest first
    accepted,               \* every command the queue has taken, in order
    dispatched,             \* every command the pump has dispatched, in order
    pump,                   \* the processCommandQueue call in progress
    isPublishing_,          \* PersistentStorage::isPublishing_
    nextParamIndex_,        \* PersistentStorage::nextParamIndex_
    totalParams_,           \* PersistentStorage::totalParams_
    stepper,                \* per context: its continueAsyncPublish call
    cycle,                  \* how many publish cycles publishAll has started
    sent,                   \* the publish calls made since the last summary (a bag)
    publishMutex_,          \* "free", or the context that holds publishMutex_
    logged                  \* per context: the closing log line of its last
                            \* continueAsyncPublish read the publish state

\* the state of the command queue and of the chunked publisher
asyncVars == <<commandQueue_, accepted, dispatched, pump, isPublishing_,
               nextParamIndex_, totalParams_, stepper, cycle, sent,
               publishMutex_, logged>>

vars == <<initialized_, nvsOpen, nvs, parameters_, mem, mqttManager_,
          mqttConnected, mqttPublishCallback_, pc, cur, snap, commandQueue_,
          accepted, dispatched, pump, isPublishing_, nextParamIndex_, totalParams_, stepper, cycle, sent,
          publishMutex_, logged>>

\* the caller's variables: address -> C type of the cell
Cells == [bool1 |-> "bool", int1 |-> "int", int2 |-> "int", float1 |-> "float",
          str1 |-> "string", blob1 |-> "blob"]

CellsOfType(t) == {a \in DOMAIN Cells : Cells[a] = t}

\* the values the caller's variables hold at start
InitialValue(t) ==
    CASE t = "bool" -> BoolV(FALSE)
      [] t = "int" -> IntV(0)
      [] t = "float" -> FloatV(0)
      [] t = "string" -> StrV(<<>>)
      [] t = "blob" -> BlobV(Str(BlobCap, 0))

EmptyStore == [k \in {} |-> NvsEntry("u8", 0, <<>>)]

\* cur: op is the entry point called, name/doc/info its arguments, res its
\* result ("pending" until it returns), n the registry size and pre the
\* target cell at entry, oldValue the copy jsonToParameter keeps, seen the
\* values of the target cell read while the call was inside the validator
\* (by "validator" or by another "task"), fx the effects so far
NoCall == [op |-> "none", name |-> <<>>, doc |-> NullV, info |-> NoInfo,
           res |-> "none", n |-> 0, pre |-> NullV, oldValue |-> NullV,
           seen |-> {}, fx |-> <<>>]

NoSnap == [valid |-> FALSE, mem |-> [a \in DOMAIN Cells |-> InitialValue(Cells[a])],
           res |-> "none", accepted |-> FALSE]

\* the execution contexts that may call continueAsyncPublish
Contexts == {"loop", "other"}

\* stepper[c]: at is "idle", or "batch" between the release of the mutex and
\* the return of continueAsyncPublish; startIndex and toPublish are the
\* locals of that call, published counts the loop's publishes, cycle is the
\* publish cycle the range was claimed in; ret tells where the last call
\* that did not reach the loop returned ("none" before any such call)
NoStep == [at |-> "idle", startIndex |-> 0, toPublish |-> 0, published |-> 0,
           cycle |-> 0, ret |-> "none"]

\* pump: at is "idle", or "loop" inside the for loop of processCommandQueue
\* with i its counter
NoPump == [at |-> "idle", i |-> 0]

Init ==
    /\ commandQueue_ = <<>>
    /\ accepted = <<>>
    /\ dispatched = <<>>
    /\ pump = NoPump
    /\ isPublishing_ = FALSE
    /\ nextParamIndex_ = 0
    /\ totalParams_ = 0
    /\ stepper = [c \in Contexts |-> NoStep]
    /\ cycle = 0
    /\ sent = EmptyBag
    /\ publishMutex_ = "free"
    /\ logged = [c \in Contexts |-> FALSE]
    /\ initialized_ = FALSE
    /\ nvsOpen = FALSE
    /\ nvs = EmptyStore
    /\ parameters_ = <<>>
    /\ mem = [a \in DOMAIN Cells |-> InitialValue(Cells[a])]
    /\ mqttManager_ = FALSE
    /\ mqttConnected = FALSE
    /\ mqttPublishCallback_ = FALSE
    /\ pc = "idle"
    /\ cur = NoCall
    /\ snap = NoSnap

(***************************************************************************)
(* begin, end.                                                             *)
(***************************************************************************)
\* a plausible slip: no test of initialized_, every call opens and reloads
begin_reload(ok) ==
    /\ pc = "idle"
    /\ IF ~ok THEN
           /\ cur' = [NoCall EXCEPT !.op = "begin", !.res = "false"]
           /\ UNCHANGED <<initialized_, nvsOpen, mem>>
       ELSE
           /\ initialized_' = TRUE
           /\ nvsOpen' = TRUE
           /\ mem' = loadAllFrom(parameters_, 1, mem, nvs, TRUE, 0, SUCCESS).mem
           /\ cur' = [NoCall EXCEPT !.op = "begin", !.res = "true"]
    /\ snap' = NoSnap
    /\ UNCHANGED <<nvs, parameters_, mqttManager_, mqttConnected, mqttPublishCallback_, pc>>
    /\ UNCHANGED asyncVars

\* ok: preferences_.begin() opens the namespace
begin(ok) ==
    /\ pc = "idle"
    /\ IF initialized_ THEN
           /\ cur' = [NoCall EXCEPT !.op = "begin", !.res = "true"]
           /\ UNCHANGED <<initialized_, nvsOpen, mem>>
       ELSE IF ~ok THEN
           /\ cur' = [NoCall EXCEPT !.op = "begin", !.res = "false"]
           /\ UNCHANGED <<initialized_, nvsOpen, mem>>
       ELSE
           /\ initialized_' = TRUE
           /\ nvsOpen' = TRUE
           /\ mem' = loadAllFrom(parameters_, 1, mem, nvs, TRUE, 0, SUCCESS).mem
           /\ cur' = [NoCall EXCEPT !.op = "begin", !.res = "true"]
    /\ snap' = NoSnap
    /\ UNCHANGED <<nvs, parameters_, mqttManager_, mqttConnected, mqttPublishCallback_, pc>>
    /\ UNCHANGED asyncVars

\* oks[k]: NVS accepts the write of the k-th parameter
end(oks) ==
    /\ pc = "idle"
    /\ initialized_
    /\ nvs' = saveAllFrom(parameters_, 1, mem, nvs, nvsOpen, oks, SUCCESS).nvs
    /\ nvsOpen' = FALSE
    /\ initialized_' = FALSE
    /\ cur' = [NoCall EXCEPT !.op = "end"]
    /\ snap' = NoSnap
    /\ UNCHANGED <<parameters_, mem, mqttManager_, mqttConnected, mqttPublishCallback_, pc>>
    /\ UNCHANGED asyncVars

(***************************************************************************)
(* register*, setOnChange, setValidator.                                   *)
(***************************************************************************)
\* the common body of the five register functions
Register(info) ==
    /\ pc = "idle"
    /\ IF ~validateParameterName(info.name) THEN
           /\ cur' = [NoCall EXCEPT !.op = "register", !.name = info.name,
                        !.info = info, !.n = Len(parameters_),
                        !.res = ERROR_INVALID_NAME]
           /\ UNCHANGED <<parameters_, mem>>
       ELSE
           /\ parameters_' = MapAssign(parameters_, info.name, info)
           \* load(name) when the storage is already initialized
           /\ mem' = IF initialized_
                     THEN loadParameter(info, mem, nvs, nvsOpen).mem
                     ELSE mem
           /\ cur' = [NoCall EXCEPT !.op = "register", !.name = info.name,
                        !.info = info, !.n = Len(parameters_), !.res = SUCCESS]
    /\ snap' = NoSnap
    /\ UNCHANGED <<initialized_, nvsOpen, nvs, mqttManager_, mqttConnected,
                   mqttPublishCallback_, pc>>
    /\ UNCHANGED asyncVars

registerBool(name, dataPtr, access) ==
    Register(ParameterInfo(name, TYPE_BOOL, access, dataPtr, 1, NoRange, NoFloatRange, 0))

registerInt(name, dataPtr, minVal, maxVal, access) ==
    Register(ParameterInfo(name, TYPE_INT, access, dataPtr, 4,
                           [min |-> minVal, max |-> maxVal], NoFloatRange, 0))

registerFloat(name, dataPtr, minVal, maxVal, access) ==
    Register(ParameterInfo(name, TYPE_FLOAT, access, dataPtr, SizeofFloat, NoRange,
                           [min |-> minVal, max |-> maxVal], 0))

registerString(name, dataPtr, maxLen, access) ==
    Register(ParameterInfo(name, TYPE_STRING, access, dataPtr, maxLen, NoRange,
                           NoFloatRange, maxLen))

registerBlob(name, dataPtr, size, access) ==
    Register(ParameterInfo(name, TYPE_BLOB, access, dataPtr, size, NoRange,
                           NoFloatRange, 0))

setOnChange(name) ==
    /\ pc = "idle"
    /\ LET at == MapFind(parameters_, name)
       IN  IF at = 0 THEN
               /\ cur' = [NoCall EXCEPT !.op = "setOnChange", !.name = name,
                            !.res = ERROR_NOT_FOUND]
               /\ UNCHANGED parameters_
           ELSE
               /\ parameters_' = [parameters_ EXCEPT ![at].onChange = TRUE]
               /\ cur' = [NoCall EXCEPT !.op = "setOnChange", !.name = name,
                            !.res = SUCCESS]
    /\ snap' = NoSnap
    /\ UNCHANGED <<initialized_, nvsOpen, nvs, mem, mqttManager_, mqttConnected,
                   mqttPublishCallback_, pc>>
    /\ UNCHANGED asyncVars

setValidator(name, validator) ==
    /\ pc = "idle"
    /\ LET at == MapFind(parameters_, name)
       IN  IF at = 0 THEN
               /\ cur' = [NoCall EXCEPT !.op = "setValidator", !.name = name,
                            !.res = ERROR_NOT_FOUND]
               /\ UNCHANGED parameters_
           ELSE
               /\ parameters_' = [parameters_ EXCEPT ![at].validator = validator]
               /\ cur' = [NoCall EXCEPT !.op = "setValidator", !.name = name,
                            !.res = SUCCESS]
    /\ snap' = NoSnap
    /\ UNCHANGED <<initialized_, nvsOpen, nvs, mem, mqttManager_, mqttConnected,
                   mqttPublishCallback_, pc>>
    /\ UNCHANGED asyncVars

(***************************************************************************)
(* save, saveAll, load, loadAll.                                           *)
(***************************************************************************)
AllWrites == [1..Len(parameters_) -> BOOLEAN]

save(name, ok) ==
    /\ pc = "idle"
    /\ LET at == MapFind(parameters_, name)
           r  == saveParameter(parameters_[at], mem, nvs, nvsOpen, ok)
       IN  IF ~initialized_ THEN
               /\ cur' = [NoCall EXCEPT !.op = "save", !.name = name, !.res = ERROR_NVS_FAIL]
               /\ UNCHANGED nvs
           ELSE IF at = 0 THEN
               /\ cur' = [NoCall EXCEPT !.op = "save", !.name = name, !.res = ERROR_NOT_FOUND]
               /\ UNCHANGED nvs
           ELSE
               /\ nvs' = r.nvs
               /\ cur' = [NoCall EXCEPT !.op = "save", !.name = name, !.res = r.res]
    /\ snap' = NoSnap
    /\ UNCHANGED <<initialized_, nvsOpen, parameters_, mem, mqttManager_, mqttConnected,
                   mqttPublishCallback_, pc>>
    /\ UNCHANGED asyncVars

saveAll(oks) ==
    /\ pc = "idle"
    /\ LET r == saveAllFrom(parameters_, 1, mem, nvs, nvsOpen, oks, SUCCESS)
       IN  IF ~initialized_ THEN
               /\ cur' = [NoCall EXCEPT !.op = "saveAll", !.res = ERROR_NVS_FAIL]
               /\ snap' = [valid |-> TRUE, mem |-> mem, res |-> ERROR_NVS_FAIL,
                           accepted |-> FALSE]
               /\ UNCHANGED nvs
           ELSE
               /\ nvs' = r.nvs
               /\ cur' = [NoCall EXCEPT !.op = "saveAll", !.res = r.res]
               /\ snap' = [valid |-> TRUE, mem |-> mem, res |-> r.res,
                           accepted |-> \A k \in DOMAIN oks : oks[k]]
    /\ UNCHANGED <<initialized_, nvsOpen, parameters_, mem, mqttManager_, mqttConnected,
                   mqttPublishCallback_, pc>>
    /\ UNCHANGED asyncVars

load(name) ==
    /\ pc = "idle"
    /\ LET at == MapFind(parameters_, name)
           r  == loadParameter(parameters_[at], mem, nvs, nvsOpen)
       IN  IF ~initialized_ THEN
               /\ cur' = [NoCall EXCEPT !.op = "load", !.name = name, !.res = ERROR_NVS_FAIL]
               /\ UNCHANGED mem
           ELSE IF at = 0 THEN
               /\ cur' = [NoCall EXCEPT !.op = "load", !.name = name, !.res = ERROR_NOT_FOUND]
               /\ UNCHANGED mem
           ELSE
               /\ mem' = r.mem
               /\ cur' = [NoCall EXCEPT !.op = "load", !.name = name, !.res = r.res]
    /\ snap' = NoSnap
    /\ UNCHANGED <<initialized_, nvsOpen, nvs, parameters_, mqttManager_, mqttConnected,
                   mqttPublishCallback_, pc>>
    /\ UNCHANGED asyncVars

loadAll(autoSaveDefaults, oks) ==
    /\ pc = "idle"
    /\ LET r  == loadAllFrom(parameters_, 1, mem, nvs, nvsOpen, 0, SUCCESS)
           sv == saveAllFrom(parameters_, 1, r.mem, nvs, nvsOpen, oks, SUCCESS)
       IN  IF ~initialized_ THEN
               /\ cur' = [NoCall EXCEPT !.op = "loadAll", !.res = ERROR_NVS_FAIL]
               /\ UNCHANGED <<mem, nvs>>
           ELSE IF autoSaveDefaults /\ r.loadedCount = 0 /\ Len(parameters_) # 0 THEN
               \* first boot: saveAll(), return SUCCESS
               /\ mem' = r.mem
               /\ nvs' = sv.nvs
               /\ cur' = [NoCall EXCEPT !.op = "loadAll", !.res = SUCCESS]
           ELSE
               /\ mem' = r.mem
               /\ cur' = [NoCall EXCEPT !.op = "loadAll", !.res = r.res]
               /\ UNCHANGED nvs
    /\ UNCHANGED <<initialized_, nvsOpen, parameters_, mqttManager_, mqttConnected,
                   mqttPublishCallback_, pc, snap>>
    /\ UNCHANGED asyncVars

(***************************************************************************)
(* The caller assigns one of its own variables.                            *)
(***************************************************************************)
CallerWrite(a, v) ==
    /\ pc = "idle"
    /\ Cells[a] = v.t
    /\ mem' = [mem EXCEPT ![a] = v]
    /\ cur' = NoCall
    /\ UNCHANGED <<initialized_, nvsOpen, nvs, parameters_, mqttManager_, mqttConnected,
                   mqttPublishCallback_, pc, snap>>
    /\ UNCHANGED asyncVars

(***************************************************************************)
(* MQTT wiring.                                                            *)
(***************************************************************************)
\* mqtt: the pointer is not null; connected: what that manager answers
setMqttManager(mqtt, connected) ==
    /\ pc = "idle"
    /\ mqttManager_' = mqtt
    /\ mqttConnected' = (mqtt /\ connected)
    /\ cur' = NoCall
    /\ snap' = NoSnap
    /\ UNCHANGED <<initialized_, nvsOpen, nvs, parameters_, mem, mqttPublishCallback_, pc>>
    /\ UNCHANGED asyncVars

setMqttPublishCallback(callback) ==
    /\ pc = "idle"
    /\ mqttPublishCallback_' = callback
    /\ cur' = NoCall
    /\ snap' = NoSnap
    /\ UNCHANGED <<initialized_, nvsOpen, nvs, parameters_, mem, mqttManager_,
                   mqttConnected, pc>>
    /\ UNCHANGED asyncVars

\* the broker connection of the attached manager comes or goes
ConnectionChanges ==
    /\ pc = "idle"
    /\ mqttManager_
    /\ mqttConnected' = ~mqttConnected
    /\ cur' = NoCall
    /\ snap' = NoSnap
    /\ UNCHANGED <<initialized_, nvsOpen, nvs, parameters_, mem, mqttManager_,
                   mqttPublishCallback_, pc>>
    /\ UNCHANGED asyncVars

(***************************************************************************)
(* setJson.  With a validator bound the call is two steps: setJson up to   *)
(* the call of param.validator(param.dataPtr), validatorReturns from       *)
(* there on; in between other tasks can read the caller's variable.        *)
(***************************************************************************)
\* a plausible slip: the access check left out
AccessDenied_never(param) == FALSE

AccessDenied(param) == param.access = ACCESS_READ_ONLY

setJson(name, doc, ok) ==
    /\ pc = "idle"
    /\ LET at    == MapFind(parameters_, name)
           param == parameters_[at]
           call  == [NoCall EXCEPT !.op = "setJson", !.name = name, !.doc = doc,
                       !.n = Len(parameters_),
                       !.pre = IF at = 0 THEN NullV ELSE mem[param.dataPtr]]
           cv    == jsonConvert(param, doc)
           mem1  == [mem EXCEPT ![param.dataPtr] = cv.newVal]
           c     == setJsonCommit(parameters_, name, mem1, nvs, nvsOpen, ok,
                                  mqttManager_, mqttConnected, mqttPublishCallback_)
       IN  IF at = 0 THEN
               /\ cur' = [call EXCEPT !.res = ERROR_NOT_FOUND]
               /\ UNCHANGED <<mem, nvs, pc>>
           ELSE IF AccessDenied(param) THEN
               /\ cur' = [call EXCEPT !.res = ERROR_ACCESS_DENIED]
               /\ UNCHANGED <<mem, nvs, pc>>
           ELSE IF cv.res # SUCCESS THEN
               /\ cur' = [call EXCEPT !.res = cv.res]
               /\ UNCHANGED <<mem, nvs, pc>>
           ELSE IF param.validator # "none" THEN
               \* the candidate is in caller memory; the validator is called
               /\ mem' = mem1
               /\ pc' = "validate"
               /\ cur' = [call EXCEPT !.res = "pending", !.oldValue = mem[param.dataPtr]]
               /\ UNCHANGED nvs
           ELSE
               /\ mem' = mem1
               /\ nvs' = c.nvs
               /\ cur' = [call EXCEPT !.res = SUCCESS, !.oldValue = mem[param.dataPtr],
                            !.fx = c.fx]
               /\ UNCHANGED pc
    /\ snap' = NoSnap
    /\ UNCHANGED <<initialized_, nvsOpen, parameters_, mqttManager_, mqttConnected,
                   mqttPublishCallback_>>
    /\ UNCHANGED asyncVars

validatorReturns(ok) ==
    /\ pc = "validate"
    /\ LET param == parameters_[MapFind(parameters_, cur.name)]
           cell  == mem[param.dataPtr]
           saw   == cur.seen \cup {[by |-> "validator", v |-> cell]}
           c     == setJsonCommit(parameters_, cur.name, mem, nvs, nvsOpen, ok,
                                  mqttManager_, mqttConnected, mqttPublishCallback_)
       IN  IF ~Validator(param.validator, cell) THEN
               /\ mem' = RestoreOld(mem, param.dataPtr, cur.oldValue)
               /\ cur' = [cur EXCEPT !.res = ERROR_VALIDATION_FAILED, !.seen = saw]
               /\ UNCHANGED nvs
           ELSE
               /\ nvs' = c.nvs
               /\ cur' = [cur EXCEPT !.res = SUCCESS, !.seen = saw, !.fx = c.fx]
               /\ UNCHANGED mem
    /\ pc' = "idle"
    /\ UNCHANGED <<initialized_, nvsOpen, parameters_, mqttManager_, mqttConnected,
                   mqttPublishCallback_, snap>>
    /\ UNCHANGED asyncVars

\* another task reads the variable while setJson is inside the validator
otherTaskReads ==
    /\ pc = "validate"
    /\ LET param == parameters_[MapFind(parameters_, cur.name)]
           read  == [by |-> "task", v |-> mem[param.dataPtr]]
       IN  /\ read \notin cur.seen
           /\ cur' = [cur EXCEPT !.seen = @ \cup {read}]
    /\ UNCHANGED <<initialized_, nvsOpen, nvs, parameters_, mem, mqttManager_,
                   mqttConnected, mqttPublishCallback_, pc, snap>>
    /\ UNCHANGED asyncVars

(***************************************************************************)
(* Inputs.                                                                 *)
(***************************************************************************)
NameA == <<97>>                                 \* "a"
NameB == <<98>>                                 \* "b"
NameF == <<102>>                                \* "f"
NameS == <<115>>                                \* "s"
NameZ == <<122>>                                \* "z", never registered
NameMixed == <<65, 95, 57, 47, 122>>            \* "A_9/z"
NameLongest == Str(MaxNameLen, 97)              \* 64 times "a"
NameTooLong == Str(MaxNameLen + 1, 97)          \* 65 times "a"
\* the short name that is the NVS key of NameLongest
NameHash == sanitizeNvsKey(NameLongest)

\* names validateParameterName must reject: empty, too long, and one with
\* each of "-", " ", ".", and the neighbours of the isalnum ranges
\* ":" "@" "[" "`" "{"
BadNames == {<<>>, NameTooLong} \cup
            {<<97, c>> : c \in {45, 32, 46, 58, 64, 91, 96, 123}}

Accesses == {ACCESS_READ_ONLY, ACCESS_READ_WRITE}

\* the empty string, "a", the longest string a StrCap buffer takes and the
\* shortest it does not
DocStrings == {Str(n, 97) : n \in {0, 1, StrCap - 1, StrCap}}

\* float h/2: -1.5, -1.0, 3.0, 3.5 around the registered [-1.0, 3.0], and NaN
DocFloats == {FloatV(h) : h \in {-3, -2, 6, 7}} \cup {NaNV}

\* int: -1, 0, 2, 3 around the registered [0, 2]
DocInts == {IntV(i) : i \in {-1, 0, 2, 3}}

Docs == {NullV, BoolV(TRUE), BoolV(FALSE)} \cup DocInts \cup DocFloats
        \cup {StrV(str) : str \in DocStrings}

(***************************************************************************)
(* SpecSet: one parameter is registered, wired and set.                    *)
(***************************************************************************)
RegisterOne(name, accesses) ==
    \/ \E acc \in accesses : registerBool(name, "bool1", acc)
    \/ \E acc \in accesses : registerInt(name, "int1", 0, 2, acc)
    \/ \E acc \in accesses : registerFloat(name, "float1", FloatV(-2), FloatV(6), acc)
    \/ \E acc \in accesses : registerString(name, "str1", StrCap, acc)
    \/ \E acc \in accesses : registerBlob(name, "blob1", BlobCap, acc)

NextSet ==
    \/ begin(TRUE)
    \/ parameters_ = <<>> /\ RegisterOne(NameA, Accesses)
    \/ setOnChange(NameA)
    \/ setValidator(NameA, "positive")
    \/ \E mqtt, connected \in BOOLEAN : setMqttManager(mqtt, connected)
    \/ \E callback \in BOOLEAN : setMqttPublishCallback(callback)
    \/ \E doc \in Docs : setJson(NameA, doc, TRUE)
    \/ setJson(NameZ, IntV(0), TRUE)
    \/ validatorReturns(TRUE)
    \/ otherTaskReads

SpecSet == Init /\ [][NextSet]_vars

(***************************************************************************)
(* Properties of setJson, read off the record of the last call.            *)
(***************************************************************************)
\* the descriptor the last call named; the registry cannot change between
\* the call and the states these properties look at
Target ==
    LET at == MapFind(parameters_, cur.name)
    IN  IF at = 0 THEN NoInfo ELSE parameters_[at]

\* setJson has returned and nothing has happened since
SetReturned == pc = "idle" /\ cur.op = "setJson"

\* the value jsonToParameter writes for the document of the last call
Candidate == jsonConvert(Target, cur.doc).newVal

\* min <= value <= max for the numeric value v and the bounds of Target
WithinBounds(v) ==
    IF Target.type = TYPE_INT
    THEN Target.intRange.min <= v.i /\ v.i <= Target.intRange.max
    ELSE /\ ~v.nan
         /\ Target.floatRange.min.h <= v.h
         /\ v.h <= Target.floatRange.max.h

\* the validator ran during the last call and returned false
ValidatorRejected ==
    \E s \in cur.seen : s.by = "validator" /\ ~Validator(Target.validator, s.v)

\* C1: for a read-write Int32 or Float32 parameter without a validator,
\* setJson with a number of the parameter's type returns SUCCESS and stores
\* the number if and only if min <= value <= max; otherwise it returns
\* ERROR_VALIDATION_FAILED and caller memory keeps its previous value.
C1_NumericSetIffWithinBounds ==
    ( /\ SetReturned
      /\ Target.access = ACCESS_READ_WRITE
      /\ Target.validator = "none"
      /\ \/ Target.type = TYPE_INT /\ cur.doc.t = "int"
         \/ Target.type = TYPE_FLOAT /\ cur.doc.t = "float" )
    => IF WithinBounds(cur.doc)
       THEN cur.res = SUCCESS /\ mem[Target.dataPtr] = cur.doc
       ELSE cur.res = ERROR_VALIDATION_FAILED /\ mem[Target.dataPtr] = cur.pre

C3_ReadOnlyUntouched ==
    [][ ( /\ pc = "idle"
          /\ cur'.op = "setJson"
          /\ MapFind(parameters_, cur'.name) # 0
          /\ parameters_[MapFind(parameters_, cur'.name)].access = ACCESS_READ_ONLY )
        => /\ cur'.res = ERROR_ACCESS_DENIED
           /\ mem' = mem
           /\ nvs' = nvs
           /\ pc' = "idle"
           /\ cur'.seen = {}
           /\ cur'.fx = <<>> ]_vars

\* a read-only int parameter was sent a value inside its bounds and differing
\* from the one it holds, with an onChange bound and a transport ready
C3_Witness ==
    /\ SetReturned
    /\ Target.access = ACCESS_READ_ONLY
    /\ Target.type = TYPE_INT
    /\ Target.onChange
    /\ mqttManager_ /\ mqttConnected
    /\ cur.doc = IntV(2)
    /\ cur.pre = IntV(0)
    /\ cur.res = ERROR_ACCESS_DENIED

\* C4: when the validator of a parameter rejects a candidate that passed the
\* range check, setJson returns ERROR_VALIDATION_FAILED, caller memory holds
\* the value it held before the call, and there is no persistence write, no
\* onChange invocation and no publish.
C4_ValidatorRejectionRestores ==
    (SetReturned /\ ValidatorRejected)
    => /\ cur.res = ERROR_VALIDATION_FAILED
       /\ mem[Target.dataPtr] = cur.pre
       /\ cur.fx = <<>>

\* the validator refused 0 for an int parameter that held 2, with an
\* onChange bound and storage initialized
C4_Witness ==
    /\ SetReturned
    /\ ValidatorRejected
    /\ initialized_
    /\ Target.onChange
    /\ cur.doc = IntV(0)
    /\ cur.pre = IntV(2)
    /\ mem[Target.dataPtr] = IntV(2)

\* C5: in a setJson that ends in ERROR_VALIDATION_FAILED, no read of the
\* caller's variable made while the call was in progress, by the validator
\* or by another task, returned the rejected candidate.
C5_CandidateNeverObserved ==
    (SetReturned /\ cur.res = ERROR_VALIDATION_FAILED)
    => \A s \in cur.seen : s.v = Candidate => Candidate = cur.pre

NextReg ==
    \/ begin(TRUE)
    \/ \E name \in {NameA} \cup BadNames : RegisterOne(name, {ACCESS_READ_WRITE})
    \/ registerInt(NameA, "int2", -1, 3, ACCESS_READ_WRITE)
    \/ registerBool(NameLongest, "bool1", ACCESS_READ_WRITE)
    \/ registerBlob(NameLongest, "blob1", BlobCap, ACCESS_READ_ONLY)
    \/ registerString(NameMixed, "str1", StrCap, ACCESS_READ_WRITE)
    \/ setOnChange(NameA)
    \/ setValidator(NameA, "positive")

SpecReg == Init /\ [][NextReg]_vars

\* the characters A-Z a-z 0-9 _ /
NameAlphabet == (65..90) \cup (97..122) \cup (48..57) \cup {95, 47}

\* C7: a register step whose name is empty, longer than 64 characters or
\* holds a character outside [A-Za-z0-9_/] returns ERROR_INVALID_NAME and
\* leaves the registry as it was; with any other name it returns SUCCESS and
\* the registry holds the descriptor under that name.
C7_NameValidation ==
    [][ (pc = "idle" /\ cur'.op = "register")
        => IF /\ Len(cur'.name) >= 1
              /\ Len(cur'.name) <= MaxNameLen
              /\ \A k \in DOMAIN cur'.name : cur'.name[k] \in NameAlphabet
           THEN /\ cur'.res = SUCCESS
                /\ MapFind(parameters_', cur'.name) # 0
                /\ parameters_'[MapFind(parameters_', cur'.name)] = cur'.info
           ELSE /\ cur'.res = ERROR_INVALID_NAME
                /\ parameters_' = parameters_ ]_vars

\* a 65-character name was refused while the 64-character name and "A_9/z"
\* are registered
C7_Witness ==
    /\ cur.op = "register"
    /\ cur.name = NameTooLong
    /\ cur.res = ERROR_INVALID_NAME
    /\ MapFind(parameters_, NameLongest) # 0
    /\ MapFind(parameters_, NameMixed) # 0
    /\ Len(parameters_) = 2

C9_SecondRegisterFails ==
    ( /\ pc = "idle"
      /\ cur.op = "register"
      /\ MapFind(parameters_, cur.name) # 0
      /\ cur.n = Len(parameters_) )
    => cur.res # SUCCESS

(***************************************************************************)
(* SpecPersist: a bool, an int, a float and a string parameter are         *)
(* registered one after the other; the caller overwrites its variables;    *)
(* saveAll and loadAll run.                                                *)
(***************************************************************************)
\* what the caller assigns to its variables: true; -1 (outside the
\* registered bounds) and 2; 3.5 and NaN; "" and the longest string the
\* buffer takes
CallerValues ==
    {BoolV(TRUE), IntV(-1), IntV(2), FloatV(7), NaNV, StrV(<<>>),
     StrV(Str(StrCap - 1, 97))}

\* NVS accepts every write of a call, or none
SameForAll(ok) == [k \in 1..Len(parameters_) |-> ok]

NextPersist ==
    \/ begin(TRUE)
    \/ Len(parameters_) = 0 /\ registerString(NameS, "str1", StrCap, ACCESS_READ_WRITE)
    \/ Len(parameters_) = 1 /\ registerFloat(NameF, "float1", FloatV(-2), FloatV(6),
                                             ACCESS_READ_WRITE)
    \/ Len(parameters_) = 2 /\ registerInt(NameA, "int1", 0, 2, ACCESS_READ_ONLY)
    \/ Len(parameters_) = 3 /\ registerBool(NameB, "bool1", ACCESS_READ_WRITE)
    \/ \E a \in {"bool1", "int1", "float1", "str1"} :
          \E v \in CallerValues : CallerWrite(a, v)
    \/ \E ok \in BOOLEAN : saveAll(SameForAll(ok))
    \/ \E auto \in BOOLEAN : loadAll(auto, SameForAll(TRUE))

SpecPersist == Init /\ [][NextPersist]_vars

\* no two registered parameters share an NVS key
DistinctKeys ==
    \A j, k \in DOMAIN parameters_ :
        sanitizeNvsKey(parameters_[j].name) = sanitizeNvsKey(parameters_[k].name)
        => j = k

\* C6: on an initialized storage whose parameters are bools, ints, floats
\* and strings with pairwise distinct NVS keys, and with NVS accepting the
\* writes: after saveAll(), any overwriting of the caller's variables and
\* loadAll(), every parameter holds the value it had when saveAll() was
\* called, and both calls returned SUCCESS.
C6_SaveAllLoadAllRoundTrip ==
    ( /\ pc = "idle"
      /\ cur.op = "loadAll"
      /\ snap.valid
      /\ snap.accepted
      /\ initialized_
      /\ DistinctKeys
      /\ \A k \in DOMAIN parameters_ : parameters_[k].type # TYPE_BLOB )
    => /\ snap.res = SUCCESS
       /\ cur.res = SUCCESS
       /\ \A k \in DOMAIN parameters_ :
             mem[parameters_[k].dataPtr] = snap.mem[parameters_[k].dataPtr]

(***************************************************************************)
(* SpecFail: an int and a string parameter are set and saved while NVS     *)
(* accepts or refuses the writes, before and after begin().                *)
(***************************************************************************)
\* documents sent to the two parameters: 0 and 2 (inside [0, 2]), 3
\* (outside) and the strings "" and "a"
FailDocs == {IntV(0), IntV(2), IntV(3), StrV(<<>>), StrV(Str(1, 97))}

NextFail ==
    \/ \E ok \in BOOLEAN : begin(ok)
    \/ Len(parameters_) = 0 /\ registerInt(NameA, "int1", 0, 2, ACCESS_READ_WRITE)
    \/ Len(parameters_) = 1 /\ registerString(NameS, "str1", StrCap, ACCESS_READ_WRITE)
    \/ \E name \in {NameA, NameS} : setOnChange(name)
    \/ setValidator(NameA, "positive")
    \/ \E name \in {NameA, NameS} : \E doc \in FailDocs : \E ok \in BOOLEAN :
          setJson(name, doc, ok)
    \/ \E ok \in BOOLEAN : validatorReturns(ok)
    \/ \E oks \in AllWrites : saveAll(oks)

SpecFail == Init /\ [][NextFail]_vars

\* the store holds, under the key of param, the entry that a successful save
\* of the value now in caller memory writes
StoreHolds(param, memory, store) ==
    LET key == sanitizeNvsKey(param.name)
    IN  /\ key \in DOMAIN store
        /\ store[key] = saveParameter(param, memory, EmptyStore, TRUE, TRUE).nvs[key]

\* C11: whenever a setJson has invoked onChange(name, v), the persistent
\* store holds v under the key of name; when the persistence write was
\* refused or the storage is not initialized, onChange is not invoked.
C11_NotifiedOnlyAfterStored ==
    SetReturned
    => \A k \in DOMAIN cur.fx :
          (cur.fx[k].e = "onChange" /\ cur.fx[k].v = mem[Target.dataPtr])
          => StoreHolds(Target, mem, nvs)

\* C12: when the persistence write of a setJson whose candidate passed
\* validation fails, caller memory keeps the new value and setJson does not
\* return SUCCESS; and a saveAll in which a write failed returns
\* ERROR_NVS_FAIL and leaves caller memory as it was.
C12_WriteFailureReported ==
    /\ ( /\ SetReturned
         /\ cur.fx # <<>>
         /\ ~StoreHolds(Target, mem, nvs) )
       => /\ mem[Target.dataPtr] = Candidate
          /\ cur.res # SUCCESS
    /\ ( /\ pc = "idle"
         /\ cur.op = "saveAll"
         /\ initialized_
         /\ ~snap.accepted )
       => /\ cur.res = ERROR_NVS_FAIL
          /\ mem = snap.mem

(***************************************************************************)
(* The command queue and handleMqttCommand.  Topics, names and payloads    *)
(* are sequences of character codes.                                       *)
(***************************************************************************)
\* capacity of commandQueue_
COMMAND_QUEUE_SIZE == 5
\* how many commands the queue takes over a run
MaxCommands == 5
\* how many parameters the publisher runs register
MaxParams == 6
\* how many publish cycles a run starts
MaxCycles == 2
\* sizeof(ParameterCommand::paramName)
ParamNameSize == 48
\* sizeof(ParameterCommand::payload)
PayloadSize == 64

\* the constructor's mqttPrefix argument: "p"
mqttPrefix_ == <<112>>

storageVars == <<initialized_, nvsOpen, nvs, parameters_, mem, snap>>
mqttVars == <<mqttManager_, mqttConnected, mqttPublishCallback_>>
publisherVars == <<isPublishing_, nextParamIndex_, totalParams_, stepper, cycle, sent,
                   publishMutex_, logged>>

\* s.find(p) == 0
FindAtZero(s, p) == Len(s) >= Len(p) /\ SubSeq(s, 1, Len(p)) = p

\* strncpy(dst, s, size - 1) into a zeroed buffer of size bytes
strncpy(s, size) == IF Len(s) <= size - 1 THEN s ELSE SubSeq(s, 1, size - 1)

ParameterCommand(type, paramName, payload) ==
    [type |-> type, paramName |-> paramName, payload |-> payload]

\* the if-chain of handleMqttCommand over subTopic; type "NONE" stands for
\* the final else (unknown command)
decodeCommand(subTopic, payload) ==
    IF FindAtZero(subTopic, <<115, 101, 116, 47>>)                  \* "set/"
    THEN ParameterCommand("SET", strncpy(SubSeq(subTopic, 5, Len(subTopic)),
                                         ParamNameSize),
                          strncpy(payload, PayloadSize))
    ELSE IF subTopic = <<103, 101, 116, 47, 97, 108, 108>>          \* "get/all"
    THEN ParameterCommand("GET_ALL", <<97, 108, 108>>, <<>>)
    ELSE IF FindAtZero(subTopic, <<103, 101, 116, 47>>)             \* "get/"
    THEN ParameterCommand("GET", strncpy(SubSeq(subTopic, 5, Len(subTopic)),
                                         ParamNameSize), <<>>)
    ELSE IF subTopic = <<108, 105, 115, 116>>                       \* "list"
    THEN ParameterCommand("LIST", <<>>, <<>>)
    ELSE IF subTopic = <<115, 97, 118, 101>>                        \* "save"
    THEN ParameterCommand("SAVE", <<>>, <<>>)
    ELSE ParameterCommand("NONE", <<>>, <<>>)

\* a plausible slip: a queue that grows instead of refusing
xQueueSend_grows(queue, cmd) == [queue |-> Append(queue, cmd), ok |-> TRUE]

\* xQueueSend(commandQueue_, &cmd, 0): no wait; refused when full
xQueueSend(queue, cmd) ==
    IF Len(queue) >= COMMAND_QUEUE_SIZE
    THEN [queue |-> queue, ok |-> FALSE]
    ELSE [queue |-> Append(queue, cmd), ok |-> TRUE]

\* exceptions: the build has C++ exceptions enabled, so that the
\* std::out_of_range of topic.substr() reaches the caller; otherwise the
\* throw aborts the program
handleMqttCommand(topic, payload, exceptions) ==
    /\ pc = "idle"
    \* a full queue takes nothing, so that arrival is not counted
    /\ Len(accepted) < MaxCommands \/ Len(commandQueue_) >= COMMAND_QUEUE_SIZE
    /\ LET call     == [NoCall EXCEPT !.op = "handleMqttCommand", !.name = topic,
                          !.n = Len(commandQueue_)]
           pos      == Len(mqttPrefix_) + 1
           subTopic == SubSeq(topic, pos + 1, Len(topic))
           cmd      == decodeCommand(subTopic, payload)
           q        == xQueueSend(commandQueue_, cmd)
       IN  IF ~FindAtZero(topic, mqttPrefix_) THEN
               /\ cur' = [call EXCEPT !.res = "false"]
               /\ UNCHANGED <<commandQueue_, accepted, pc>>
           ELSE IF pos > Len(topic) THEN
               \* topic.substr(pos) with pos > size() throws
               /\ cur' = [call EXCEPT !.res = "out_of_range"]
               /\ pc' = IF exceptions THEN "idle" ELSE "aborted"
               /\ UNCHANGED <<commandQueue_, accepted>>
           ELSE IF cmd.type = "NONE" THEN
               /\ cur' = [call EXCEPT !.res = "false"]
               /\ UNCHANGED <<commandQueue_, accepted, pc>>
           ELSE
               \* true whether or not the queue took the command
               /\ commandQueue_' = q.queue
               /\ accepted' = IF q.ok THEN Append(accepted, cmd) ELSE accepted
               /\ cur' = [call EXCEPT !.res = "true"]
               /\ UNCHANGED pc
    /\ UNCHANGED <<storageVars, mqttVars, publisherVars, dispatched, pump>>

(***************************************************************************)
(* processCommandQueue.                                                    *)
(***************************************************************************)
\* the bound of the for loop of processCommandQueue
PumpBatch == 5

\* deserializeJson(doc, payload) and doc["value"], for the payloads of the
\* form {"value":<literal>} with an integer, true, false, null or a string
\* without escapes as literal; NullV for null and for every other text
\* (a parse error, or a document without the member)
JsonValueMember(payload) ==
    LET head == <<123, 34, 118, 97, 108, 117, 101, 34, 58>>       \* {"value":
        lit  == SubSeq(payload, Len(head) + 1, Len(payload) - 1)
    IN  IF ~(FindAtZero(payload, head) /\ Len(payload) > Len(head) + 1
             /\ payload[Len(payload)] = 125)                      \* }
        THEN NullV
        ELSE IF IsDigits(lit) THEN IntV(DigitsValue(lit, 0))
        ELSE IF Len(lit) > 1 /\ lit[1] = 45 /\ IsDigits(Tail(lit))
        THEN IntV(-DigitsValue(Tail(lit), 0))
        ELSE IF lit = <<116, 114, 117, 101>> THEN BoolV(TRUE)      \* true
        ELSE IF lit = <<102, 97, 108, 115, 101>> THEN BoolV(FALSE) \* false
        ELSE IF /\ Len(lit) >= 2 /\ lit[1] = 34 /\ lit[Len(lit)] = 34
                /\ \A k \in 2..(Len(lit) - 1) : lit[k] \notin {34, 92}
        THEN StrV(SubSeq(lit, 2, Len(lit) - 1))
        ELSE NullV

\* the document the SET case hands to setJson: the "value" member of the
\* payload, else the plain payload as a number (strtod consumed all of a
\* non-empty text: here an optionally signed decimal integer, or "nan"),
\* as true/false, or as a string
payloadToDoc(payload) ==
    LET member == JsonValueMember(payload)
    IN  IF ~isNull(member) THEN member
        ELSE IF IsDigits(payload) THEN FloatV(2 * DigitsValue(payload, 0))
        ELSE IF Len(payload) > 1 /\ payload[1] = 45 /\ IsDigits(Tail(payload))
        THEN FloatV(-2 * DigitsValue(Tail(payload), 0))
        ELSE IF payload = <<110, 97, 110>> THEN NaNV               \* nan
        ELSE IF payload = <<116, 114, 117, 101>> THEN BoolV(TRUE)
        ELSE IF payload = <<102, 97, 108, 115, 101>> THEN BoolV(FALSE)
        ELSE StrV(payload)

\* setJson as one call, the validator running inside it
setJsonCall(m, name, doc, memory, store, open, ok, mgr, conn, cb) ==
    LET at    == MapFind(m, name)
        param == m[at]
        cv    == jsonConvert(param, doc)
        mem1  == [memory EXCEPT ![param.dataPtr] = cv.newVal]
        c     == setJsonCommit(m, name, mem1, store, open, ok, mgr, conn, cb)
        refused(res) == [res |-> res, mem |-> memory, nvs |-> store, fx |-> <<>>]
    IN  IF at = 0 THEN refused(ERROR_NOT_FOUND)
        ELSE IF AccessDenied(param) THEN refused(ERROR_ACCESS_DENIED)
        ELSE IF cv.res # SUCCESS THEN refused(cv.res)
        ELSE IF param.validator # "none" /\ ~Validator(param.validator, cv.newVal)
        THEN [res |-> ERROR_VALIDATION_FAILED,
              mem |-> RestoreOld(mem1, param.dataPtr, memory[param.dataPtr]),
              nvs |-> store, fx |-> <<>>]
        ELSE [res |-> SUCCESS, mem |-> mem1, nvs |-> c.nvs, fx |-> c.fx]

\* a plausible slip: rfind for find
SlashPos_last(name) ==
    IF \E k \in DOMAIN name : name[k] = 47
    THEN CHOOSE k \in DOMAIN name : name[k] = 47 /\ \A j \in (k + 1)..Len(name) : name[j] # 47
    ELSE 0

\* name.find('/'): the position of the first '/', 0 for npos
SlashPos(name) ==
    IF \E k \in DOMAIN name : name[k] = 47
    THEN CHOOSE k \in DOMAIN name : name[k] = 47 /\ \A j \in 1..(k - 1) : name[j] # 47
    ELSE 0

\* the group names the GET case knows
KnownGroups ==
    {<<104, 101, 97, 116, 105, 110, 103>>,       \* heating
     <<119, 104, 101, 97, 116, 101, 114>>,       \* wheater
     <<112, 105, 100>>,                           \* pid
     <<115, 101, 110, 115, 111, 114>>,            \* sensor
     <<115, 121, 115, 116, 101, 109>>}            \* system

\* publishGroupedCategory: the members of the document are [obj, key, v],
\* obj the sub-object ("" for the root); deref tells that the call went
\* through the null mqttManager_
publishGroupedCategory(m, memory, category, mgr, conn, cb) ==
    LET pid  == <<112, 105, 100>>
        subs == {<<115, 112, 97, 99, 101, 72, 101, 97, 116, 105, 110, 103>>,  \* spaceHeating
                 <<119, 97, 116, 101, 114, 72, 101, 97, 116, 101, 114>>}      \* waterHeater
        rest(k) == SubSeq(m[k].name, SlashPos(m[k].name) + 1, Len(m[k].name))
        second(k) ==
            IF /\ category = pid /\ SlashPos(rest(k)) # 0
               /\ SubSeq(rest(k), 1, SlashPos(rest(k)) - 1) \in subs
            THEN SlashPos(rest(k)) ELSE 0
        member(k) == [obj |-> SubSeq(rest(k), 1, second(k) - 1),
                      key |-> SubSeq(rest(k), second(k) + 1, Len(rest(k))),
                      v   |-> memory[m[k].dataPtr]]
        doc == {member(k) : k \in {j \in DOMAIN m :
                    /\ m[j].access # ACCESS_READ_ONLY
                    /\ SlashPos(m[j].name) # 0
                    /\ SubSeq(m[j].name, 1, SlashPos(m[j].name) - 1) = category
                    /\ m[j].type # TYPE_BLOB}}
    IN  IF category # pid /\ doc = {} THEN [fx |-> <<>>, deref |-> FALSE]
        ELSE IF ~cb /\ ~mgr THEN [fx |-> <<>>, deref |-> TRUE]
        ELSE [fx |-> <<Ev("publishGroup", category, doc, cb \/ conn)>>,
              deref |-> FALSE]

\* the loop of publishAllGrouped over the groups, in the order the registry
\* shows them: entry k starts a group when no earlier name has its prefix
RECURSIVE publishGroupsFrom(_, _, _, _, _, _)
publishGroupsFrom(m, k, memory, mgr, conn, cb) ==
    IF k > Len(m) THEN <<>>
    ELSE LET p     == SlashPos(m[k].name)
             group == SubSeq(m[k].name, 1, p - 1)
             first == /\ p # 0
                      /\ \A j \in 1..(k - 1) :
                            ~(SlashPos(m[j].name) # 0
                              /\ SubSeq(m[j].name, 1, SlashPos(m[j].name) - 1) = group)
         IN  (IF first
              THEN publishGroupedCategory(m, memory, group, mgr, conn, cb).fx
              ELSE <<>>)
             \o publishGroupsFrom(m, k + 1, memory, mgr, conn, cb)

publishAllGrouped(m, memory, mgr, conn, cb) ==
    LET groups == {SubSeq(m[k].name, 1, SlashPos(m[k].name) - 1) :
                      k \in {j \in DOMAIN m : SlashPos(m[j].name) # 0}}
    IN  IF ~cb /\ (~mgr \/ ~conn) THEN <<>>
        ELSE publishGroupsFrom(m, 1, memory, mgr, conn, cb)
             \o <<Ev("publishComplete", <<>>, IntV(Cardinality(groups)), cb \/ conn)>>

\* one case of the switch of processCommandQueue
dispatch(cmd, m, memory, store, open, init, ok, mgr, conn, cb) ==
    LET done(fx) == [res |-> "done", mem |-> memory, nvs |-> store, fx |-> fx,
                     deref |-> FALSE]
        set   == setJsonCall(m, cmd.paramName, payloadToDoc(cmd.payload), memory,
                             store, open, ok, mgr, conn, cb)
        group == publishGroupedCategory(m, memory, cmd.paramName, mgr, conn, cb)
        saved == saveAllFrom(m, 1, memory, store, open, [k \in DOMAIN m |-> ok],
                             SUCCESS)
    IN  CASE cmd.type = "SET" ->
               [res |-> set.res, mem |-> set.mem, nvs |-> set.nvs, fx |-> set.fx,
                deref |-> FALSE]
          [] cmd.type = "GET" ->
               IF SlashPos(cmd.paramName) = 0 /\ cmd.paramName \in KnownGroups
               THEN [done(group.fx) EXCEPT !.deref = group.deref]
               ELSE done(publishUpdate(m, cmd.paramName, memory, mgr, conn, cb))
          [] cmd.type = "GET_ALL" ->
               done(publishAllGrouped(m, memory, mgr, conn, cb))
          [] cmd.type = "LIST" ->
               IF ~cb /\ ~mgr THEN [done(<<>>) EXCEPT !.deref = TRUE]
               ELSE done(<<Ev("publishList", <<>>, [k \in DOMAIN m |-> m[k].name],
                              cb \/ conn)>>)
          [] cmd.type = "SAVE" ->
               IF ~init THEN [done(<<>>) EXCEPT !.res = ERROR_NVS_FAIL]
               ELSE [done(<<>>) EXCEPT !.res = saved.res, !.nvs = saved.nvs]

\* the call of processCommandQueue
processCommandQueue ==
    /\ pc = "idle"
    /\ pump.at = "idle"
    /\ pump' = [at |-> "loop", i |-> 0]
    /\ UNCHANGED <<storageVars, mqttVars, publisherVars, commandQueue_, accepted,
                   dispatched, pc, cur>>

\* one round of its loop, or its return.  ok: the NVS writes of this round
\* succeed; crash: the call through the null mqttManager_ ends the program
\* (otherwise it comes back without a message)
processCommandQueue_loop(ok, crash) ==
    /\ pc = "idle"
    /\ pump.at = "loop"
    /\ IF pump.i >= PumpBatch \/ commandQueue_ = <<>> THEN
           /\ pump' = NoPump
           /\ UNCHANGED <<commandQueue_, dispatched, mem, nvs, snap, pc>>
       ELSE
           LET cmd == Head(commandQueue_)
               d   == dispatch(cmd, parameters_, mem, nvs, nvsOpen, initialized_, ok,
                               mqttManager_, mqttConnected, mqttPublishCallback_)
           IN  /\ commandQueue_' = Tail(commandQueue_)
               /\ dispatched' = Append(dispatched, [cmd |-> cmd, res |-> d.res,
                                                    fx |-> d.fx, deref |-> d.deref])
               /\ mem' = d.mem
               /\ nvs' = d.nvs
               /\ snap' = NoSnap
               /\ IF d.deref /\ crash
                  THEN pc' = "crashed" /\ UNCHANGED pump
                  ELSE pc' = pc /\ pump' = [pump EXCEPT !.i = pump.i + 1]
    /\ UNCHANGED <<initialized_, nvsOpen, parameters_, mqttVars, publisherVars,
                   accepted, cur>>

(***************************************************************************)
(* The producer and the pump: topics arrive while processCommandQueue      *)
(* runs.  The registry is set up first: one int parameter "pid/x" in       *)
(* [0, 2].                                                                 *)
(***************************************************************************)
NamePidX == <<112, 105, 100, 47, 120>>                             \* "pid/x"
TopicList == <<112, 47, 108, 105, 115, 116>>                       \* "p/list"
TopicSetPidX == <<112, 47, 115, 101, 116, 47>> \o NamePidX         \* "p/set/pid/x"
TopicOther == <<113, 47, 108, 105, 115, 116>>                      \* "q/list"
PayloadOne == <<123, 34, 118, 97, 108, 117, 101, 34, 58, 49, 125>> \* {"value":1}
PayloadNine == <<57>>                                              \* 9
\* {invalid json}
PayloadInvalid ==
    <<123, 105, 110, 118, 97, 108, 105, 100, 32, 106, 115, 111, 110, 125>>

Arrivals ==
    {<<TopicList, <<>>>>, <<TopicSetPidX, PayloadOne>>, <<TopicSetPidX, PayloadNine>>,
     <<TopicOther, <<>>>>}

NextQueue ==
    \/ Len(parameters_) = 0 /\ registerInt(NamePidX, "int1", 0, 2, ACCESS_READ_WRITE)
    \/ accepted = <<>> /\ \E callback \in BOOLEAN : setMqttPublishCallback(callback)
    \/ Len(parameters_) = 1 /\ \E a \in Arrivals : handleMqttCommand(a[1], a[2], TRUE)
    \/ Len(parameters_) = 1 /\ processCommandQueue
    \/ \E crash \in BOOLEAN : processCommandQueue_loop(TRUE, crash)

SpecQueue == Init /\ [][NextQueue]_vars

\* the topic has the form <prefix>/<remainder> with a remainder set/<name>,
\* get/all, get/<name>, list or save
RecognizedTopic(topic) ==
    LET lead      == mqttPrefix_ \o <<47>>
        remainder == SubSeq(topic, Len(lead) + 1, Len(topic))
    IN  /\ Len(topic) >= Len(lead)
        /\ SubSeq(topic, 1, Len(lead)) = lead
        /\ \/ remainder \in {<<108, 105, 115, 116>>, <<115, 97, 118, 101>>}
           \/ Len(remainder) >= 4
              /\ SubSeq(remainder, 1, 4) \in {<<115, 101, 116, 47>>, <<103, 101, 116, 47>>}

\* a step of handleMqttCommand (the pump and the setters leave a different
\* trace)
DecodeStep ==
    /\ cur'.op = "handleMqttCommand"
    /\ UNCHANGED <<dispatched, pump>>
    /\ cur' # cur \/ commandQueue_' # commandQueue_

DecodeDepth == 2

Topic(remainder) == mqttPrefix_ \o remainder

DecodeArrivals ==
    {<<TopicSetPidX, PayloadOne>>,
     <<Topic(<<47, 103, 101, 116, 47, 97, 108, 108>>), <<>>>>,      \* "p/get/all"
     <<Topic(<<47, 103, 101, 116, 47>> \o NamePidX), <<>>>>,        \* "p/get/pid/x"
     <<Topic(<<47, 103, 101, 116, 47, 112, 105, 100>>), <<>>>>,     \* "p/get/pid"
     <<TopicList, <<>>>>,
     <<Topic(<<47, 115, 97, 118, 101>>), <<>>>>,                    \* "p/save"
     <<Topic(<<>>), <<>>>>,                                         \* "p"
     <<Topic(<<47>>), <<>>>>,                                       \* "p/"
     <<Topic(<<88, 108, 105, 115, 116>>), <<>>>>,                   \* "pXlist"
     <<Topic(<<47, 102, 111, 111>>), <<>>>>,                        \* "p/foo"
     <<<<120>> \o TopicList, <<>>>>,                                \* "xp/list"
     <<TopicOther, <<>>>>,
     <<<<>>, <<>>>>}

NextDecode ==
    \/ Len(parameters_) = 0 /\ registerInt(NamePidX, "int1", 0, 2, ACCESS_READ_WRITE)
    \/ accepted = <<>> /\ setMqttPublishCallback(TRUE)
    \/ /\ Len(parameters_) = 1
       /\ Len(accepted) < DecodeDepth
       /\ \E a \in DecodeArrivals : \E exceptions \in BOOLEAN :
             handleMqttCommand(a[1], a[2], exceptions)
    \/ Len(parameters_) = 1 /\ processCommandQueue
    \/ \E crash \in BOOLEAN : processCommandQueue_loop(TRUE, crash)

SpecDecode == Init /\ [][NextDecode]_vars

\* C14: handleMqttCommand returns true and enqueues one command exactly
\* when the topic is <prefix>/<remainder> with a remainder set/<name>,
\* get/all, get/<name>, list or save (a full queue drops it, C13); for every
\* other topic it returns false, enqueues nothing and raises no exception;
\* the registry, the parameter values and the store stay as they were
C14_DecodeClassifies ==
    /\ [](cur.op = "handleMqttCommand"
          => cur.res = (IF RecognizedTopic(cur.name) THEN "true" ELSE "false"))
    /\ [][DecodeStep
          => /\ IF RecognizedTopic(cur'.name) /\ Len(commandQueue_) < 5
                THEN /\ Len(commandQueue_') = Len(commandQueue_) + 1
                     /\ SubSeq(commandQueue_', 1, Len(commandQueue_)) = commandQueue_
                ELSE commandQueue_' = commandQueue_
             /\ UNCHANGED storageVars]_vars

\* the commands of a sequence of dispatch records
Commands(log) == [k \in DOMAIN log |-> log[k].cmd]

\* C15: a processCommandQueue call dispatches at most 5 commands, in the
\* order they were enqueued, and returns when the queue is empty; every
\* command the queue accepted is dispatched exactly once over the pump
\* calls; a command that fails does not stop the batch: the call goes on to
\* the next round and returns only after 5 rounds or on an empty queue
C15_PumpDispatchesEachOnce ==
    /\ [](pump.i <= 5)
    /\ [](accepted = Commands(dispatched) \o commandQueue_)
    /\ [][/\ dispatched' # dispatched
             => /\ dispatched' = Append(dispatched, dispatched'[Len(dispatched')])
                /\ pc' = "idle"
                /\ pump'.at = "loop"
                /\ pump'.i = pump.i + 1
          /\ (pump.at = "loop" /\ pump'.at = "idle")
             => (pump.i = 5 \/ commandQueue_ = <<>>)]_vars

(***************************************************************************)
(* publishAll and continueAsyncPublish.  The sections under publishMutex_  *)
(* are single steps; the publishes of a chunk, made after the mutex is     *)
(* released, are one step each.  sent is the bag of the publish calls      *)
(* since the last summary; positions count from 0 as in the code.          *)
(***************************************************************************)
PARAMS_PER_CHUNK == 5

\* a publish call: topic "summary" is <prefix>/status/summary, "status" is
\* <prefix>/status/<name>; pos is the registry position, c the publish cycle
Published(topic, name, v, pos, c, ok) ==
    [topic |-> topic, name |-> name, v |-> v, pos |-> pos, cycle |-> c, ok |-> ok]

\* a plausible slip: the connection of the attached manager is not asked
TransportReady_attached(mgr, conn, cb) == cb \/ mgr

\* the test at the head of publishAllAsync
TransportReady(mgr, conn, cb) == cb \/ (mgr /\ conn)

\* a plausible slip: a publish in progress is started over
StartAllowed_restart(publishing, count) == count > 0

\* the two tests of publishAllAsync under the mutex
StartAllowed(publishing, count) == ~publishing /\ count > 0

\* a plausible slip: a full chunk whatever is left
ChunkSize_full(total, next) == PARAMS_PER_CHUNK

\* std::min(PARAMS_PER_CHUNK, totalParams_ - nextParamIndex_)
ChunkSize(total, next) ==
    IF total - next < PARAMS_PER_CHUNK THEN total - next ELSE PARAMS_PER_CHUNK

\* a plausible slip: the cursor is left for the end of the call
AdvanceCursor_late(next, toPublish) == next

\* nextParamIndex_ += toPublish, before the mutex is released
AdvanceCursor(next, toPublish) == next + toPublish

\* a plausible slip: > for >=
ChunkDone_offByOne(published, toPublish) == published > toPublish

\* if (published >= toPublish) break
ChunkDone(published, toPublish) == published >= toPublish

\* a plausible slip: a lost connection is taken for a failed publish
ConnectionLost_ignored(callback, result) == FALSE

\* !success && result.error() == MQTTError::CONNECTION_FAILED, in the branch
\* without publish callback
ConnectionLost(callback, result) == ~callback /\ result = "CONNECTION_FAILED"

\* ok: the publish of the summary succeeds
publishAll(ok) ==
    /\ pc = "idle"
    /\ LET ready == TransportReady(mqttManager_, mqttConnected, mqttPublishCallback_)
           start == StartAllowed(isPublishing_, Len(parameters_))
           call  == [NoCall EXCEPT !.op = "publishAll", !.n = Len(parameters_)]
       IN  IF ~ready \/ ~start THEN
               /\ cur' = [call EXCEPT !.res = "ignored"]
               /\ UNCHANGED <<isPublishing_, nextParamIndex_, totalParams_, cycle, sent>>
           ELSE
               \* the bound is on the cycles started from Idle
               /\ ~isPublishing_ => cycle < MaxCycles
               /\ cycle' = cycle + 1
               /\ sent' = SetToBag({Published("summary", <<>>, IntV(Len(parameters_)),
                                                0, cycle + 1, ok)})
               /\ isPublishing_' = ok
               /\ nextParamIndex_' = 0
               /\ totalParams_' = IF ok THEN Len(parameters_) ELSE 0
               /\ cur' = [call EXCEPT !.res = IF ok THEN "started" ELSE "failed"]
    /\ UNCHANGED <<storageVars, mqttVars, commandQueue_, accepted, dispatched, pump,
                   stepper, pc, publishMutex_, logged>>

\* continueAsyncPublish in context c, up to the release of the mutex
continueAsyncPublish(c) ==
    /\ pc = "idle"
    /\ stepper[c].at = "idle"
    /\ LET toPublish == ChunkSize(totalParams_, nextParamIndex_)
           returned(ret) == [stepper EXCEPT ![c] = [NoStep EXCEPT !.ret = ret]]
       IN  IF ~isPublishing_ THEN
               /\ stepper' = returned("not publishing")
               /\ UNCHANGED <<isPublishing_, nextParamIndex_, totalParams_>>
           ELSE IF ~mqttPublishCallback_ /\ ~mqttManager_ THEN
               /\ stepper' = returned("no manager")
               /\ UNCHANGED <<isPublishing_, nextParamIndex_, totalParams_>>
           ELSE IF \/ ~mqttPublishCallback_ /\ ~mqttConnected
                   \/ nextParamIndex_ >= totalParams_ THEN
               /\ isPublishing_' = FALSE
               /\ nextParamIndex_' = 0
               /\ totalParams_' = 0
               /\ stepper' = returned(IF ~mqttPublishCallback_ /\ ~mqttConnected
                                      THEN "disconnected" ELSE "finished")
           ELSE
               /\ nextParamIndex_' = AdvanceCursor(nextParamIndex_, toPublish)
               /\ stepper' = [stepper EXCEPT ![c] =
                                 [at |-> "batch", startIndex |-> nextParamIndex_,
                                  toPublish |-> toPublish, published |-> 0,
                                  cycle |-> cycle, ret |-> "none"]]
               /\ UNCHANGED <<isPublishing_, totalParams_>>
    /\ UNCHANGED <<storageVars, mqttVars, commandQueue_, accepted, dispatched, pump,
                   cycle, sent, pc, cur, publishMutex_, logged>>

\* one round of the loop of continueAsyncPublish over parameters_ in context
\* c, or its return.  result: what the publish call answers; crash: the call
\* through a null mqttManager_ ends the program (otherwise it counts as
\* a failed publish)
continueAsyncPublish_loop(c, result, crash) ==
    /\ pc = "idle"
    /\ stepper[c].at = "batch"
    /\ ~mqttPublishCallback_ /\ ~mqttConnected => result # "ok"
    /\ LET my   == stepper[c]
           pos  == my.startIndex + my.published
           msg  == Published("status", parameters_[pos + 1].name,
                             parameterToJson(parameters_[pos + 1], mem), pos,
                             my.cycle, result = "ok")
           next == [stepper EXCEPT ![c].published = my.published + 1]
       IN  IF ChunkDone(my.published, my.toPublish) \/ pos >= Len(parameters_) THEN
               /\ stepper' = [stepper EXCEPT ![c] = NoStep]
               /\ UNCHANGED <<isPublishing_, nextParamIndex_, totalParams_, sent, pc>>
           ELSE IF ~mqttPublishCallback_ /\ ~mqttManager_ THEN
               /\ IF crash THEN pc' = "crashed" /\ UNCHANGED stepper
                           ELSE pc' = pc /\ stepper' = next
               /\ UNCHANGED <<isPublishing_, nextParamIndex_, totalParams_, sent>>
           ELSE IF ConnectionLost(mqttPublishCallback_, result) THEN
               /\ sent' = sent (+) SetToBag({msg})
               /\ isPublishing_' = FALSE
               /\ nextParamIndex_' = 0
               /\ totalParams_' = 0
               /\ stepper' = [stepper EXCEPT ![c] = NoStep]
               /\ UNCHANGED pc
           ELSE
               /\ sent' = sent (+) SetToBag({msg})
               /\ stepper' = next
               /\ UNCHANGED <<isPublishing_, nextParamIndex_, totalParams_, pc>>
    /\ UNCHANGED <<storageVars, mqttVars, commandQueue_, accepted, dispatched, pump,
                   cycle, cur, publishMutex_, logged>>

\* the registry of the publisher runs: int parameters "a", "b", ... on one
\* variable, registered before the transport is set up
RegisterNext ==
    /\ Len(parameters_) < MaxParams
    /\ ~mqttManager_ /\ ~mqttPublishCallback_ /\ cycle = 0
    /\ registerInt(<<97 + Len(parameters_)>>, "int1", 0, 2, ACCESS_READ_WRITE)

\* the registry is empty or complete
SetUp == Len(parameters_) \in {0, MaxParams}

NextPublish ==
    \/ RegisterNext
    \* the transport changes while no continueAsyncPublish call is in its loop
    \/ /\ SetUp
       /\ \A c \in Contexts : stepper[c].at = "idle"
       /\ \E connected \in BOOLEAN : setMqttManager(TRUE, connected)
    \/ /\ SetUp
       /\ \A c \in Contexts : stepper[c].at = "idle"
       /\ setMqttManager(FALSE, FALSE)
    \/ SetUp /\ \E ok \in BOOLEAN : publishAll(ok)
    \/ \E c \in Contexts : continueAsyncPublish(c)
    \/ \E c \in Contexts : \E result \in {"ok", "CONNECTION_FAILED"} :
          \E crash \in BOOLEAN : continueAsyncPublish_loop(c, result, crash)

SpecPublish == Init /\ [][NextPublish]_vars

\* C16: publishAll called while the publisher is Idle on an empty registry,
\* or with no publish callback and the manager absent or disconnected,
\* hands no message to the transport (no summary) and leaves isPublishing_,
\* nextParamIndex_ and totalParams_ as they were, at Idle
C16_PublishAllNoOp ==
    [][((\E ok \in BOOLEAN : publishAll(ok))
        /\ ~isPublishing_
        /\ \/ Len(parameters_) = 0
           \/ ~mqttPublishCallback_ /\ (~mqttManager_ \/ ~mqttConnected))
       => /\ sent' = sent
          /\ ~isPublishing_'
          /\ nextParamIndex_' = nextParamIndex_
          /\ totalParams_' = totalParams_]_vars

\* publishAll has returned from a call made at Idle with a complete registry
\* and a manager that is attached but not connected
C16_Witness ==
    /\ cur.op = "publishAll"
    /\ cur.res = "ignored"
    /\ cur.n = MaxParams
    /\ cycle = 0
    /\ ~isPublishing_
    /\ mqttManager_ /\ ~mqttConnected /\ ~mqttPublishCallback_
    /\ sent = EmptyBag

\* C17: publishAll called while a publish is in progress hands no summary to
\* the transport and leaves nextParamIndex_ and totalParams_ as they were,
\* wherever the cursor stands
C17_PublishAllWhilePublishing ==
    [][((\E ok \in BOOLEAN : publishAll(ok)) /\ isPublishing_)
       => /\ sent' = sent
          /\ isPublishing_'
          /\ nextParamIndex_' = nextParamIndex_
          /\ totalParams_' = totalParams_]_vars

\* publishAll has returned from a call made in the middle of a cycle, the
\* transport being connected: the cursor stands behind the first chunk
C17_Witness ==
    /\ cur.op = "publishAll"
    /\ cur.res = "ignored"
    /\ isPublishing_
    /\ mqttManager_ /\ mqttConnected
    /\ nextParamIndex_ = PARAMS_PER_CHUNK
    /\ totalParams_ = MaxParams

\* C18: a continueAsyncPublish step taken when the cursor has reached the
\* total publishes nothing and moves the publisher to Idle; a step taken at
\* Idle publishes nothing and leaves it Idle
C18_StepAtEndGoesIdle ==
    [][\A c \in Contexts :
          /\ (continueAsyncPublish(c) /\ isPublishing_
              /\ nextParamIndex_ >= totalParams_)
             => (~isPublishing_' /\ sent' = sent /\ stepper'[c].at = "idle")
          /\ (continueAsyncPublish(c) /\ ~isPublishing_)
             => /\ ~isPublishing_' /\ sent' = sent /\ stepper'[c].at = "idle"
                /\ nextParamIndex_' = nextParamIndex_
                /\ totalParams_' = totalParams_]_vars

\* the positions a call in its loop has claimed
Claimed(my) == {p \in 0..(MaxParams + PARAMS_PER_CHUNK) :
                   my.startIndex <= p /\ p < my.startIndex + my.toPublish}

\* C20: the index ranges claimed by continueAsyncPublish calls that run in
\* two contexts during one publish cycle are disjoint, and no registry
\* position is published twice within a cycle
C20_DisjointRanges ==
    /\ \A c1 \in Contexts : \A c2 \in Contexts \ {c1} :
          (/\ stepper[c1].at = "batch" /\ stepper[c2].at = "batch"
           /\ stepper[c1].cycle = stepper[c2].cycle)
          => Claimed(stepper[c1]) \cap Claimed(stepper[c2]) = {}
    /\ \A m1 \in BagToSet(sent) : \A m2 \in BagToSet(sent) :
          (/\ m1.topic = "status" /\ m2.topic = "status"
           /\ m1.cycle = m2.cycle /\ m1.pos = m2.pos)
          => (m1 = m2 /\ CopiesIn(m1, sent) = 1)

\* two calls of one cycle are inside their loops and each has published
C20_Witness ==
    /\ \A c \in Contexts : stepper[c].at = "batch" /\ stepper[c].published >= 1
    /\ stepper["loop"].cycle = stepper["other"].cycle
    /\ stepper["loop"].cycle = cycle
    /\ isPublishing_

(***************************************************************************)
(* One publish cycle stepped from one context: the transport is set up     *)
(* once and stays connected, every publish succeeds, the registry is       *)
(* complete before publishAll.  The host's loop keeps calling              *)
(* continueAsyncPublish, and a call inside its loop goes on: weak fairness *)
(* of both.                                                                *)
(***************************************************************************)
NextCycle ==
    \/ RegisterNext
    \/ ~mqttManager_ /\ ~mqttPublishCallback_ /\ setMqttManager(TRUE, TRUE)
    \/ ~mqttManager_ /\ ~mqttPublishCallback_ /\ setMqttPublishCallback(TRUE)
    \/ publishAll(TRUE)
    \/ continueAsyncPublish("loop")
    \/ continueAsyncPublish_loop("loop", "ok", FALSE)

SpecCycle ==
    /\ Init
    /\ [][NextCycle]_vars
    /\ WF_vars(continueAsyncPublish("loop"))
    /\ WF_vars(continueAsyncPublish_loop("loop", "ok", FALSE))

\* the publishes of position k - 1 on <prefix>/status/<name> in this cycle
StatusOf(k) ==
    {m \in BagToSet(sent) : /\ m.topic = "status" /\ m.cycle = cycle
                            /\ m.name = parameters_[k].name}

NextAbort ==
    \/ RegisterNext
    \/ SetUp /\ \E mqtt \in BOOLEAN : setMqttManager(mqtt, mqtt)
    \/ SetUp /\ ConnectionChanges
    \/ SetUp /\ publishAll(TRUE)
    \/ continueAsyncPublish("loop")
    \/ \E result \in {"ok", "CONNECTION_FAILED"} : \E crash \in BOOLEAN :
          continueAsyncPublish_loop("loop", result, crash)

SpecAbort == Init /\ [][NextAbort]_vars

\* isPublishing_, nextParamIndex_ and totalParams_ after the step are Idle
IdleNext == ~isPublishing_' /\ nextParamIndex_' = 0 /\ totalParams_' = 0

\* C21: a step that finds the manager disconnected publishes nothing and
\* resets to Idle; a publish that fails for a lost connection resets to Idle
\* at once and ends the call, so that nothing more of the batch is
\* attempted; only publishAll leaves Idle, with the cursor at 0, and with
\* the stepping call returned nothing is published at Idle but by publishAll
C21_AbortOnDisconnect ==
    /\ [][(/\ continueAsyncPublish("loop")
           /\ isPublishing_
           /\ ~mqttPublishCallback_ /\ mqttManager_ /\ ~mqttConnected)
          => (IdleNext /\ sent' = sent /\ stepper'["loop"].at = "idle")]_vars
    /\ [][(/\ \E crash \in BOOLEAN :
                 continueAsyncPublish_loop("loop", "CONNECTION_FAILED", crash)
           /\ ~mqttPublishCallback_
           /\ sent' # sent)
          => (IdleNext /\ stepper'["loop"].at = "idle")]_vars
    /\ [][(~isPublishing_ /\ isPublishing_')
          => /\ \E ok \in BOOLEAN : publishAll(ok)
             /\ nextParamIndex_' = 0
             /\ \A m \in BagToSet(sent') : m.topic = "summary"]_vars
    /\ [][(~isPublishing_ /\ stepper["loop"].at = "idle" /\ sent' # sent)
          => \E ok \in BOOLEAN : publishAll(ok)]_vars

\* a publish of the second position failed for a lost connection: the
\* publisher is Idle, the call has returned, four positions of its batch and
\* the second chunk were not attempted
C21_Witness ==
    /\ ~isPublishing_ /\ nextParamIndex_ = 0 /\ totalParams_ = 0
    /\ stepper["loop"].at = "idle"
    /\ Len(parameters_) = MaxParams
    /\ ~mqttPublishCallback_
    /\ BagCardinality(sent) = 3
    /\ \E m \in BagToSet(sent) : m.topic = "status" /\ m.pos = 1 /\ ~m.ok

(***************************************************************************)
(* loadAll(autoSaveDefaults) on a store without the registered keys.       *)
(***************************************************************************)
\* C22: loadAll(true) on an initialized storage with a non-empty registry
\* and a store that holds none of the registered keys leaves an entry for
\* every registered parameter in the store; when the store holds at least
\* one of the keys, loadAll(true) writes nothing
C22_FirstBootSavesDefaults ==
    [][(/\ loadAll(TRUE, SameForAll(TRUE))
        /\ initialized_
        /\ Len(parameters_) # 0)
       => IF \A k \in DOMAIN parameters_ :
                sanitizeNvsKey(parameters_[k].name) \notin DOMAIN nvs
          THEN \A k \in DOMAIN parameters_ :
                  sanitizeNvsKey(parameters_[k].name) \in DOMAIN nvs'
          ELSE nvs' = nvs]_vars

(***************************************************************************)
(* reset, resetAll, eraseNamespace.  preferences_.remove and               *)
(* preferences_.clear do nothing on a namespace that is not open, and      *)
(* nothing when NVS refuses (ok = FALSE); neither result is looked at by   *)
(* reset and resetAll.                                                     *)
(***************************************************************************)
\* preferences_.clear()
NvsClear(store, open, ok) == IF open /\ ok THEN <<>> ELSE store

reset(name, ok) ==
    /\ pc = "idle"
    /\ IF MapFind(parameters_, name) = 0 THEN
           /\ cur' = [NoCall EXCEPT !.op = "reset", !.name = name, !.res = ERROR_NOT_FOUND]
           /\ UNCHANGED nvs
       ELSE
           /\ nvs' = IF nvsOpen /\ ok THEN NvsRemove(nvs, sanitizeNvsKey(name)) ELSE nvs
           /\ cur' = [NoCall EXCEPT !.op = "reset", !.name = name, !.res = SUCCESS]
    /\ snap' = NoSnap
    /\ UNCHANGED <<initialized_, nvsOpen, parameters_, mem, mqttManager_, mqttConnected,
                   mqttPublishCallback_, pc>>
    /\ UNCHANGED asyncVars

resetAll(ok) ==
    /\ pc = "idle"
    /\ nvs' = NvsClear(nvs, nvsOpen, ok)
    /\ cur' = [NoCall EXCEPT !.op = "resetAll", !.res = SUCCESS]
    /\ snap' = NoSnap
    /\ UNCHANGED <<initialized_, nvsOpen, parameters_, mem, mqttManager_, mqttConnected,
                   mqttPublishCallback_, pc>>
    /\ UNCHANGED asyncVars

\* opened: preferences_.begin() opens the namespace; ok: clear() succeeds.
\* The handle is closed on every path and initialized_ is left false
eraseNamespace(opened, ok) ==
    /\ pc = "idle"
    /\ initialized_' = FALSE
    /\ nvsOpen' = FALSE
    /\ IF ~opened THEN
           /\ cur' = [NoCall EXCEPT !.op = "eraseNamespace", !.res = "false"]
           /\ UNCHANGED nvs
       ELSE
           /\ nvs' = NvsClear(nvs, TRUE, ok)
           /\ cur' = [NoCall EXCEPT !.op = "eraseNamespace",
                        !.res = IF ok THEN "true" ELSE "false"]
    /\ snap' = NoSnap
    /\ UNCHANGED <<parameters_, mem, mqttManager_, mqttConnected,
                   mqttPublishCallback_, pc>>
    /\ UNCHANGED asyncVars

(***************************************************************************)
(* SpecErase: two int parameters whose 16-character names hash to the same *)
(* NVS key and a string parameter are registered; the caller assigns its   *)
(* variables; the storage is begun and ended; parameters and the whole     *)
(* registry are saved, loaded and reset, and the namespace is erased.      *)
(***************************************************************************)
NameAa == Str(MaxKeyLen - 1, 97) \o <<65, 97>>      \* "aaaaaaaaaaaaaaAa"
NameBB == Str(MaxKeyLen - 1, 97) \o <<66, 66>>      \* "aaaaaaaaaaaaaaBB"

NextErase ==
    \/ \E ok \in BOOLEAN : begin(ok)
    \/ end(SameForAll(TRUE))
    \/ Len(parameters_) = 0 /\ registerInt(NameAa, "int1", 0, 2, ACCESS_READ_WRITE)
    \/ Len(parameters_) = 1 /\ registerInt(NameBB, "int2", 0, 2, ACCESS_READ_WRITE)
    \/ Len(parameters_) = 2 /\ registerString(NameS, "str1", StrCap, ACCESS_READ_WRITE)
    \/ CallerWrite("int1", IntV(1))
    \/ CallerWrite("int2", IntV(2))
    \/ CallerWrite("str1", StrV(Str(1, 97)))
    \/ \E name \in {NameAa, NameS} : save(name, TRUE)
    \/ saveAll(SameForAll(TRUE))
    \/ \E name \in {NameAa, NameBB, NameS, NameZ} : load(name)
    \/ \E auto \in BOOLEAN : loadAll(auto, SameForAll(TRUE))
    \/ \E name \in {NameAa, NameBB, NameS, NameZ} : \E ok \in BOOLEAN : reset(name, ok)
    \/ \E ok \in BOOLEAN : resetAll(ok)
    \/ \E opened, ok \in BOOLEAN : eraseNamespace(opened, ok)

SpecErase == Init /\ [][NextErase]_vars

\* the registered names
Registered == {parameters_[k].name : k \in DOMAIN parameters_}

\* the store after the step holds under k what it held before
KeptAt(k) == k \in DOMAIN nvs' /\ nvs'[k] = nvs[k]

\* a load that follows a reset which left no entry under the key, and a
\* loadAll that follows a resetAll which left no entry at all, leave caller
\* memory alone
LoadAfterResetKeeps ==
    /\ [][(/\ cur.op = "reset" /\ cur.res = SUCCESS
           /\ sanitizeNvsKey(cur.name) \notin DOMAIN nvs
           /\ load(cur.name))
          => mem' = mem]_vars
    /\ [][(/\ cur.op = "resetAll"
           /\ DOMAIN nvs = {}
           /\ \E auto \in BOOLEAN : loadAll(auto, SameForAll(TRUE)))
          => mem' = mem]_vars

\* C23: reset and resetAll leave caller memory alone; reset of a
\* registered name removes the entry of that parameter and keeps the entry
\* of every other parameter; reset of an unregistered name returns
\* ERROR_NOT_FOUND and changes nothing; resetAll removes every entry; a load
\* that follows reset and a loadAll that follows resetAll leave caller
\* memory alone
C23_ResetKeepsMemory ==
    /\ [][\A name \in {NameAa, NameBB, NameS, NameZ} :
             reset(name, TRUE)
             => /\ mem' = mem
                /\ IF name \in Registered
                   THEN /\ cur'.res = SUCCESS
                        /\ sanitizeNvsKey(name) \notin DOMAIN nvs'
                        /\ \A other \in Registered \ {name} :
                              sanitizeNvsKey(other) \in DOMAIN nvs
                              => KeptAt(sanitizeNvsKey(other))
                   ELSE cur'.res = ERROR_NOT_FOUND /\ nvs' = nvs]_vars
    /\ [][resetAll(TRUE) => (mem' = mem /\ DOMAIN nvs' = {})]_vars
    /\ LoadAfterResetKeeps

\* C25: an eraseNamespace() that returns true leaves the namespace without
\* entries; a loadAll() that follows it returns SUCCESS and leaves every
\* registered parameter at the value in caller memory; a saveAll() that
\* follows it, with NVS accepting the writes, returns SUCCESS and leaves an
\* entry for every registered parameter in the store
C25_EraseThenRepopulate ==
    /\ [][(\E opened, ok \in BOOLEAN : eraseNamespace(opened, ok)) =>
             (cur'.res = "true" => DOMAIN nvs' = {})]_vars
    /\ [][(/\ cur.op = "eraseNamespace" /\ cur.res = "true"
           /\ \E auto \in BOOLEAN : loadAll(auto, SameForAll(TRUE)))
          => (cur'.res = SUCCESS /\ mem' = mem)]_vars
    /\ [][(/\ cur.op = "eraseNamespace" /\ cur.res = "true"
           /\ Len(parameters_) # 0
           /\ saveAll(SameForAll(TRUE)))
          => /\ cur'.res = SUCCESS
             /\ \A name \in Registered : sanitizeNvsKey(name) \in DOMAIN nvs']_vars

(***************************************************************************)
(* SpecKey: sanitizeNvsKey is called, as save, load and reset call it, for *)
(* names of 1 to MaxRepeat + 2 characters, a 40-character name and the     *)
(* longest name; the call and its key are recorded in cur.                 *)
(***************************************************************************)
MaxRepeat == 17

\* n times "a" or "z", followed by nothing, "Aa" or "BB"
KeyNames ==
    ({Str(n, c) \o tl : n \in 0..MaxRepeat, c \in {97, 122},
                        tl \in {<<>>, <<65, 97>>, <<66, 66>>}} \ {<<>>})
    \cup {Str(40, 122), NameLongest}

\* std::string key = sanitizeNvsKey(name)
sanitizeNvsKeyCall(name) ==
    /\ pc = "idle"
    /\ cur' = [NoCall EXCEPT !.op = "sanitizeNvsKey", !.name = name,
                 !.doc = StrV(sanitizeNvsKey(name))]
    /\ UNCHANGED <<initialized_, nvsOpen, nvs, parameters_, mem, mqttManager_,
                   mqttConnected, mqttPublishCallback_, pc, snap>>
    /\ UNCHANGED asyncVars

NextKey == \E name \in KeyNames : sanitizeNvsKeyCall(name)

SpecKey == Init /\ [][NextKey]_vars

\* x * mul + add on a number of four base-256 digits, most significant
\* first; the fifth, leading element of the result is what does not fit
\* into 32 bits
MulAdd(x, mul, add) ==
    LET t0 == x[4] * mul + add
        t1 == x[3] * mul + (t0 \div 256)
        t2 == x[2] * mul + (t1 \div 256)
        t3 == x[1] * mul + (t2 \div 256)
    IN  <<t3 \div 256, t3 % 256, t2 % 256, t1 % 256, t0 % 256>>

\* sum of name[i] * 31^(Len(name) - i) modulo 2^32, as four base-256 digits
RECURSIVE PolyHash(_, _, _)
PolyHash(name, i, h) ==
    IF i > Len(name) THEN h
    ELSE LET next == Tail(MulAdd(h, 31, name[i]))
         IN  IF next[1] >= 0 THEN PolyHash(name, i + 1, next) ELSE next

\* the number that the decimal digits ds write, as four base-256 digits;
\* <<>> when it does not fit into 32 bits
RECURSIVE DecimalValue(_, _, _)
DecimalValue(ds, i, h) ==
    IF i > Len(ds) THEN h
    ELSE LET next == MulAdd(h, 10, ds[i] - 48)
         IN  IF next[1] # 0 THEN <<>> ELSE DecimalValue(ds, i + 1, Tail(next))

\* C24: a name of at most 15 characters is its own key; the key of a longer
\* name is "p" followed by the decimal digits, without leading zero, of the
\* polynomial hash of the whole name modulo 2^32; every key has at most 15
\* characters; a second call for the name gives the same key; names with
\* equal hashes get equal keys
C24_KeySanitizer ==
    cur.op = "sanitizeNvsKey" =>
        LET name == cur.name
            key  == cur.doc.s
            ds   == Tail(key)
        IN  /\ Len(name) <= 15 => key = name
            /\ Len(name) > 15 =>
                  /\ key[1] = 112
                  /\ Len(ds) >= 1
                  /\ \A i \in DOMAIN ds : ds[i] >= 48 /\ ds[i] <= 57
                  /\ Len(ds) > 1 => ds[1] # 48
                  /\ DecimalValue(ds, 1, <<0, 0, 0, 0>>)
                        = PolyHash(name, 1, <<0, 0, 0, 0>>)
            /\ Len(key) <= 15
            /\ key = sanitizeNvsKey(name)
            /\ \A other \in KeyNames :
                  (/\ Len(other) > 15 /\ Len(name) > 15
                   /\ PolyHash(other, 1, <<0, 0, 0, 0>>)
                         = PolyHash(name, 1, <<0, 0, 0, 0>>))
                  => sanitizeNvsKey(other) = key

\* the key of an over-length name whose hash has wrapped around 2^32 and
\* which another over-length name shares
C24_Witness ==
    /\ cur.op = "sanitizeNvsKey"
    /\ Len(cur.name) > 15
    /\ Len(cur.doc.s) = 11
    /\ \E other \in KeyNames \ {cur.name} :
          Len(other) > 15 /\ sanitizeNvsKey(other) = cur.doc.s

(***************************************************************************)
(* SpecPump: the parameters "pid/x" (an int in [0, 2]), "s/a/b" (a         *)
(* string), "s/c" (a blob), "sensor" (an int in [0, 2]) and the read-only  *)
(* "z/r" (a bool) are registered; a manager, connected or not, and a       *)
(* publish callback are set or not; then commands arrive and               *)
(* processCommandQueue dispatches them.                                    *)
(***************************************************************************)
PumpDepth == 2

NamePid == <<112, 105, 100>>                        \* "pid"
NameSC == <<115, 47, 99>>                           \* "s/c"
NameSensor == <<115, 101, 110, 115, 111, 114>>      \* "sensor"
NameSAB == <<115, 47, 97, 47, 98>>                  \* "s/a/b"
NameZR == <<122, 47, 114>>                          \* "z/r"
TopicSet(name) == Topic(<<47, 115, 101, 116, 47>> \o name)     \* "p/set/<name>"
TopicGet(name) == Topic(<<47, 103, 101, 116, 47>> \o name)     \* "p/get/<name>"

\* sets that succeed (1, twice so that the second changes nothing), a value
\* out of range, a payload that is not JSON, a read-only and an unknown
\* parameter; gets of parameters, of the groups "pid" and "s", of an unknown
\* name; get/all; list
PumpArrivals ==
    {<<TopicSet(NamePidX), PayloadOne>>, <<TopicSet(NamePidX), PayloadNine>>,
     <<TopicSet(NamePidX), PayloadInvalid>>,
     <<TopicSet(NameZR), PayloadOne>>, <<TopicSet(NameZ), PayloadOne>>,
     <<TopicGet(NamePid), <<>>>>, <<TopicGet(NamePidX), <<>>>>,
     <<TopicGet(<<115>>), <<>>>>, <<TopicGet(NameSAB), <<>>>>,
     <<TopicGet(NameSensor), <<>>>>, <<TopicGet(NameZR), <<>>>>,
     <<TopicGet(NameZ), <<>>>>,
     <<TopicGet(<<97, 108, 108>>), <<>>>>, <<TopicList, <<>>>>}

NextPump ==
    \/ Len(parameters_) = 0 /\ registerInt(NamePidX, "int1", 0, 2, ACCESS_READ_WRITE)
    \/ Len(parameters_) = 1 /\ registerString(NameSAB, "str1", StrCap, ACCESS_READ_WRITE)
    \/ Len(parameters_) = 2 /\ registerBlob(NameSC, "blob1", BlobCap, ACCESS_READ_WRITE)
    \/ Len(parameters_) = 3 /\ registerInt(NameSensor, "int2", 0, 2, ACCESS_READ_WRITE)
    \/ Len(parameters_) = 4 /\ registerBool(NameZR, "bool1", ACCESS_READ_ONLY)
    \/ Len(parameters_) = 5 /\ accepted = <<>>
          /\ \E mqtt, connected \in BOOLEAN : setMqttManager(mqtt, connected)
    \/ Len(parameters_) = 5 /\ accepted = <<>>
          /\ \E callback \in BOOLEAN : setMqttPublishCallback(callback)
    \/ Len(parameters_) = 5 /\ Len(accepted) < PumpDepth
          /\ \E a \in PumpArrivals : handleMqttCommand(a[1], a[2], TRUE)
    \/ Len(parameters_) = 5 /\ processCommandQueue
    \/ \E crash \in BOOLEAN : processCommandQueue_loop(TRUE, crash)

SpecPump == Init /\ [][NextPump]_vars

\* the publishes among the effects fx of a dispatch, in their order
Outbound(fx) == SelectSeq(fx, LAMBDA ev : ev.e \notin {"put", "onChange"})

\* a way to publish is there: a publish callback or a connected manager
Transport == mqttPublishCallback_ \/ (mqttManager_ /\ mqttConnected)

\* C26: with a callback set or a connected manager attached, the dispatch
\* of a SET command publishes: the status of the parameter with its new
\* value when setJson returned SUCCESS, a report of the error otherwise
C26_SetAlwaysPublishes ==
    \A k \in DOMAIN dispatched :
        LET d == dispatched[k]
        IN  (d.cmd.type = "SET" /\ Transport)
            => /\ Outbound(d.fx) # <<>>
               /\ d.res = SUCCESS
                  => \E i \in DOMAIN d.fx :
                        d.fx[i].e = "publish" /\ d.fx[i].name = d.cmd.paramName

\* the part of name before its first "/"; the name has one
FirstSegment(name) ==
    LET seps == {k \in DOMAIN name : name[k] = 47}
    IN  SubSeq(name, 1, (CHOOSE k \in seps : \A j \in seps : k <= j) - 1)

\* the registry positions of the names with a separator
Grouped ==
    {k \in DOMAIN parameters_ :
        47 \in {parameters_[k].name[i] : i \in DOMAIN parameters_[k].name}}

\* those with first segment g
InGroup(g) == {k \in Grouped : FirstSegment(parameters_[k].name) = g}

\* the first segments of the registered names that have a separator
Groups == {FirstSegment(parameters_[k].name) : k \in Grouped}

\* C27: with a callback set or a connected manager attached, the dispatch
\* of GET for a name without separator that is the first segment of
\* registered parameters publishes one message, that of the group; the
\* dispatch of GET for any other registered name publishes one message, the
\* status of the parameter with the value in caller memory
C27_GetPublishesStatus ==
    (dispatched # <<>> /\ commandQueue_ = <<>> /\ Transport) =>
        LET d == dispatched[Len(dispatched)]
            n == d.cmd.paramName
            out == Outbound(d.fx)
        IN  d.cmd.type = "GET" =>
               IF SlashPos(n) = 0 /\ n \in Groups
               THEN /\ Len(out) = 1
                    /\ out[1].e = "publishGroup" /\ out[1].name = n
               ELSE MapFind(parameters_, n) # 0 =>
                    /\ Len(out) = 1
                    /\ out[1].e = "publish" /\ out[1].name = n
                    /\ out[1].v = parameterToJson(parameters_[MapFind(parameters_, n)], mem)

\* the registry positions of what a group message shows of group g
Shown(g) == {k \in InGroup(g) : /\ parameters_[k].access = ACCESS_READ_WRITE
                                /\ parameters_[k].type # TYPE_BLOB}

\* the member of a group message for registry position k: sub-object and
\* key give the rest of the name, the value is that in caller memory
MemberOf(mb, k, g) ==
    /\ (IF mb.obj = <<>> THEN mb.key ELSE mb.obj \o <<47>> \o mb.key)
          = SubSeq(parameters_[k].name, Len(g) + 2, Len(parameters_[k].name))
    /\ mb.v = mem[parameters_[k].dataPtr]

\* the message of group g shows the positions ks, each once, and no more
GroupMessage(ev, g, ks) ==
    /\ ev.e = "publishGroup" /\ ev.name = g
    /\ \A k \in ks : \E mb \in ev.v : MemberOf(mb, k, g)
    /\ \A mb \in ev.v : \E k \in ks : MemberOf(mb, k, g)
    /\ Cardinality(ev.v) = Cardinality(ks)

C29_CallbackCarriesEveryPublish ==
    \A k \in DOMAIN dispatched :
        LET d == dispatched[k]
            n == d.cmd.paramName
            published(e, name) ==
                \E i \in DOMAIN d.fx : d.fx[i].e = e /\ d.fx[i].name = name /\ d.fx[i].ok
        IN  mqttPublishCallback_ =>
               /\ ~d.deref
               /\ (d.cmd.type = "SET" /\ d.res = SUCCESS) => published("publish", n)
               /\ (d.cmd.type = "GET" /\ n \in {NamePidX, NameSAB, NameSC, NameZR})
                     => published("publish", n)
               /\ d.cmd.type = "GET_ALL" => published("publishComplete", <<>>)
               /\ d.cmd.type = "LIST" => published("publishList", <<>>)

\* C30: a setJson that returned SUCCESS on a parameter with an onChange
\* callback has invoked the callback once when the value in caller memory
\* differs from the one before the call, and not at all when it is the same
C30_OnChangeOnlyOnChange ==
    (/\ pc = "idle" /\ cur.op = "setJson" /\ cur.res = SUCCESS
     /\ parameters_[MapFind(parameters_, cur.name)].onChange)
    => LET param == parameters_[MapFind(parameters_, cur.name)]
           calls == SelectSeq(cur.fx, LAMBDA ev : ev.e = "onChange")
       IN  Len(calls) = IF mem[param.dataPtr] # cur.oldValue THEN 1 ELSE 0

\* C31: a continueAsyncPublish call that finds the publisher Publishing with
\* the cursor below the total and a way to publish claims
\* batch = min(5, total - cursor) positions from the cursor on and leaves
\* the cursor at cursor + batch; each publish of the call is that of the
\* next position of its range, with the name and value the registry shows
\* there; unless a lost connection ends it, the call returns after exactly
\* batch publishes; no call publishes more than 5 parameters
C31_BatchPerCall ==
    /\ [][\A c \in Contexts :
             (/\ continueAsyncPublish(c)
              /\ isPublishing_
              /\ TransportReady(mqttManager_, mqttConnected, mqttPublishCallback_)
              /\ nextParamIndex_ < totalParams_)
             => LET batch == IF totalParams_ - nextParamIndex_ < 5
                             THEN totalParams_ - nextParamIndex_ ELSE 5
                IN  /\ stepper'[c].at = "batch"
                    /\ stepper'[c].startIndex = nextParamIndex_
                    /\ stepper'[c].toPublish = batch
                    /\ stepper'[c].published = 0
                    /\ nextParamIndex_' = nextParamIndex_ + batch]_vars
    /\ [][\A c \in Contexts :
             (stepper[c].at = "batch" /\ stepper'[c] # stepper[c] /\ sent' # sent)
             => \E m \in BagToSet(sent') :
                   /\ sent' = sent (+) SetToBag({m})
                   /\ m.topic = "status"
                   /\ m.pos = stepper[c].startIndex + stepper[c].published
                   /\ m.pos < stepper[c].startIndex + stepper[c].toPublish
                   /\ m.name = parameters_[m.pos + 1].name
                   /\ m.v = mem[parameters_[m.pos + 1].dataPtr]]_vars
    /\ [][\A c \in Contexts :
             (stepper[c].at = "batch" /\ stepper'[c].at = "idle" /\ sent' = sent)
             => stepper[c].published = stepper[c].toPublish]_vars
    /\ [](\A c \in Contexts : stepper[c].published <= stepper[c].toPublish
                              /\ stepper[c].toPublish <= 5)

\* the call that claimed the last position of six has made its one publish
C31_Witness ==
    \E c \in Contexts :
        /\ stepper[c].at = "batch"
        /\ stepper[c].startIndex = 5
        /\ stepper[c].toPublish = 1
        /\ stepper[c].published = 1
        /\ totalParams_ = MaxParams


(***************************************************************************)
(* SET commands whose payload is not a value of the parameter's type.      *)
(***************************************************************************)
\* the step is the pump's dispatch of a SET of name carrying payload
DispatchesSet(name, payload) ==
    /\ pc = "idle" /\ pump.at = "loop" /\ pump.i < PumpBatch
    /\ commandQueue_ # <<>>
    /\ Len(dispatched') = Len(dispatched) + 1
    /\ Head(commandQueue_).type = "SET"
    /\ Head(commandQueue_).paramName = name
    /\ Head(commandQueue_).payload = payload

\* C32: a SET whose payload is not JSON, sent to an int32 parameter, fails
\* and leaves every value in memory as it was; a SET of a name that is not
\* registered changes no parameter
C32_BadPayloadChangesNothing ==
    /\ [][DispatchesSet(NamePidX, PayloadInvalid)
             => /\ mem' = mem
                /\ dispatched'[Len(dispatched')].res # SUCCESS]_vars
    /\ [][DispatchesSet(NameZ, PayloadOne) => mem' = mem]_vars


(***************************************************************************)
(* Blob parameters and the JSON form.                                      *)
(***************************************************************************)
\* the step is a return of setJson for a registered blob
SetJsonOfBlob ==
    /\ cur' # cur
    /\ cur'.op = "setJson"
    /\ MapFind(parameters_, cur'.name) # 0
    /\ parameters_[MapFind(parameters_, cur'.name)].type = TYPE_BLOB

\* C33: a set through JSON of a blob parameter, whatever the document,
\* never returns SUCCESS, leaves the bytes in memory and the store as they
\* were, and neither writes to the store, nor invokes onChange, nor
\* publishes; the JSON form of a blob has its size and no value
C33_BlobNeverSet ==
    /\ [][SetJsonOfBlob
             => /\ cur'.res \in {ERROR_ACCESS_DENIED, ERROR_VALIDATION_FAILED,
                                 ERROR_TYPE_MISMATCH}
                /\ cur'.fx = <<>>
                /\ pc' = "idle"
                /\ mem' = mem
                /\ nvs' = nvs]_vars
    /\ [](\A k \in DOMAIN parameters_ :
             parameters_[k].type = TYPE_BLOB
                => /\ isNull(parameterToJson(parameters_[k], mem))
                   /\ parameterToJsonSize(parameters_[k]) = BlobCap)

\* a document that is not null was set on a read-write blob with a change
\* callback, while the storage was open and a publish callback was set
C33_Witness ==
    /\ SetReturned
    /\ Target.type = TYPE_BLOB
    /\ Target.access = ACCESS_READ_WRITE
    /\ Target.onChange
    /\ initialized_
    /\ mqttPublishCallback_
    /\ ~isNull(cur.doc)
    /\ cur.res = ERROR_TYPE_MISMATCH


(***************************************************************************)
(* Calls on a storage that is not initialized, begin on one that is.       *)
(***************************************************************************)
\* C35: while initialized_ is false (no begin yet, after end, after a begin
\* that failed) save, saveAll, load and loadAll return ERROR_NVS_FAIL and
\* leave the memory and the store as they were; begin on an initialized
\* storage returns true and loads nothing
C35_NotInitializedRefuses ==
    /\ [][(~initialized_ /\ cur'.op \in {"save", "saveAll", "load", "loadAll"})
             => /\ cur'.res = ERROR_NVS_FAIL
                /\ mem' = mem
                /\ nvs' = nvs
                /\ ~initialized_']_vars
    /\ [][(initialized_ /\ cur'.op = "begin")
             => /\ cur'.res = "true"
                /\ mem' = mem
                /\ nvs' = nvs
                /\ initialized_']_vars

\* loadAll was refused on a closed storage whose store holds, for the first
\* parameter, a value other than the one in memory
C35_Witness ==
    /\ ~initialized_
    /\ cur.op = "loadAll"
    /\ cur.res = ERROR_NVS_FAIL
    /\ Len(parameters_) = 3
    /\ NvsHas(nvs, sanitizeNvsKey(NameAa), "i32")
    /\ nvs[sanitizeNvsKey(NameAa)].i # mem["int1"].i


(***************************************************************************)
(* publishAllAsync and continueAsyncPublish with publishMutex_ spelled     *)
(* out: a call takes the mutex in one step and runs the section under it   *)
(* in the next, so that the calls of two contexts interleave as the        *)
(* scheduler lets them.  stepper[c].at is "publishAll", "continue" or       *)
(* "abort" while c is between a take and its give.  A take of a mutex that *)
(* another context holds is the take that waits its 100 ms in vain; the    *)
(* one that gets the mutex during the wait is the take of the free mutex.  *)
(* stepper[c].ret is "timeout" after a call that gave up at a take.        *)
(***************************************************************************)
\* xSemaphoreTake(publishMutex_, pdMS_TO_TICKS(100)) by c: the holder after
\* the call, pdTRUE exactly when that is c
xSemaphoreTake(mutex, c) == IF mutex = "free" THEN c ELSE mutex

\* a plausible slip: a return path without its give
xSemaphoreGive_kept(mutex, c) == mutex

\* xSemaphoreGive(publishMutex_) by c
xSemaphoreGive(mutex, c) == IF mutex = c THEN "free" ELSE mutex

\* a plausible slip: only the flag is cleared
StopPublishing_flagOnly(next, total) ==
    [isPublishing |-> FALSE, next |-> next, total |-> total]

\* isPublishing_ = false; nextParamIndex_ = 0; totalParams_ = 0;
StopPublishing(next, total) == [isPublishing |-> FALSE, next |-> 0, total |-> 0]

AssignPublishState(t) ==
    /\ isPublishing_' = t.isPublishing
    /\ nextParamIndex_' = t.next
    /\ totalParams_' = t.total

\* how many publish cycles a run of the two contexts starts
MutexCycles == 1

\* publishAllAsync in context c up to its take of the mutex (the bound is on
\* the cycles started; a call made while one is in progress starts none)
publishAllAsync_take(c) ==
    /\ pc = "idle"
    /\ stepper[c].at = "idle"
    /\ isPublishing_ \/ cycle < MutexCycles
    /\ LET holder == xSemaphoreTake(publishMutex_, c)
           returned(ret) == [stepper EXCEPT ![c] = [NoStep EXCEPT !.ret = ret]]
       IN  IF ~TransportReady(mqttManager_, mqttConnected, mqttPublishCallback_) THEN
               /\ stepper' = returned("none")
               /\ UNCHANGED publishMutex_
           ELSE IF holder # c THEN
               /\ stepper' = returned("timeout")
               /\ UNCHANGED publishMutex_
           ELSE
               /\ stepper' = [stepper EXCEPT ![c] = [NoStep EXCEPT !.at = "publishAll"]]
               /\ publishMutex_' = holder
    /\ UNCHANGED <<storageVars, mqttVars, commandQueue_, accepted, dispatched, pump,
                   isPublishing_, nextParamIndex_, totalParams_, cycle, sent, pc, cur,
                   logged>>

\* publishAllAsync in context c from its take of the mutex to its return.
\* ok: the publish of the summary succeeds
publishAllAsync_locked(c, ok) ==
    /\ pc = "idle"
    /\ stepper[c].at = "publishAll"
    /\ LET call == [NoCall EXCEPT !.op = "publishAll", !.n = Len(parameters_)]
       IN  IF ~StartAllowed(isPublishing_, Len(parameters_)) THEN
               /\ cur' = [call EXCEPT !.res = "ignored"]
               /\ UNCHANGED <<isPublishing_, nextParamIndex_, totalParams_, cycle, sent>>
           ELSE
               /\ cycle' = cycle + 1
               /\ sent' = SetToBag({Published("summary", <<>>, IntV(Len(parameters_)),
                                                0, cycle + 1, ok)})
               /\ IF ok
                  THEN AssignPublishState([isPublishing |-> TRUE, next |-> 0,
                                           total |-> Len(parameters_)])
                  ELSE AssignPublishState(StopPublishing(0, Len(parameters_)))
               /\ cur' = [call EXCEPT !.res = IF ok THEN "started" ELSE "failed"]
    /\ publishMutex_' = xSemaphoreGive(publishMutex_, c)
    /\ stepper' = [stepper EXCEPT ![c] = NoStep]
    /\ UNCHANGED <<storageVars, mqttVars, commandQueue_, accepted, dispatched, pump,
                   pc, logged>>

\* continueAsyncPublish in context c up to its take of the mutex
continueAsyncPublish_take(c) ==
    /\ pc = "idle"
    /\ stepper[c].at = "idle"
    /\ LET holder == xSemaphoreTake(publishMutex_, c)
       IN  IF holder # c THEN
               /\ stepper' = [stepper EXCEPT ![c] = [NoStep EXCEPT !.ret = "timeout"]]
               /\ UNCHANGED publishMutex_
           ELSE
               /\ stepper' = [stepper EXCEPT ![c] = [NoStep EXCEPT !.at = "continue"]]
               /\ publishMutex_' = holder
    /\ logged' = [logged EXCEPT ![c] = FALSE]
    /\ UNCHANGED <<storageVars, mqttVars, commandQueue_, accepted, dispatched, pump,
                   isPublishing_, nextParamIndex_, totalParams_, cycle, sent, pc, cur>>

\* continueAsyncPublish in context c from its take of the mutex to the give
\* before the loop, or to its return
continueAsyncPublish_locked(c) ==
    /\ pc = "idle"
    /\ stepper[c].at = "continue"
    /\ LET toPublish == ChunkSize(totalParams_, nextParamIndex_)
           returned == [stepper EXCEPT ![c] = NoStep]
       IN  IF ~isPublishing_ THEN
               /\ stepper' = returned
               /\ UNCHANGED <<isPublishing_, nextParamIndex_, totalParams_>>
           ELSE IF ~mqttPublishCallback_ /\ ~mqttManager_ THEN
               /\ stepper' = returned
               /\ UNCHANGED <<isPublishing_, nextParamIndex_, totalParams_>>
           ELSE IF \/ ~mqttPublishCallback_ /\ ~mqttConnected
                   \/ nextParamIndex_ >= totalParams_ THEN
               /\ AssignPublishState(StopPublishing(nextParamIndex_, totalParams_))
               /\ stepper' = returned
           ELSE
               /\ nextParamIndex_' = AdvanceCursor(nextParamIndex_, toPublish)
               /\ stepper' = [stepper EXCEPT ![c] =
                                 [at |-> "batch", startIndex |-> nextParamIndex_,
                                  toPublish |-> toPublish, published |-> 0,
                                  cycle |-> cycle, ret |-> "none"]]
               /\ UNCHANGED <<isPublishing_, totalParams_>>
    /\ publishMutex_' = xSemaphoreGive(publishMutex_, c)
    /\ UNCHANGED <<storageVars, mqttVars, commandQueue_, accepted, dispatched, pump,
                   cycle, sent, pc, cur, logged>>

\* one round of the loop of continueAsyncPublish in context c, or the end of
\* the loop with the closing log line and the return.  result: what the
\* publish call answers; crash: the call through a null mqttManager_ ends
\* the program; debug: the build defines PSTORAGE_DEBUG, so that PSTOR_LOG_D
\* evaluates its arguments.  After a publish that failed for a lost
\* connection the mutex is taken again: with it the call goes on to reset the
\* publish state, without it the call returns
continueAsyncPublish_publish(c, result, crash, debug) ==
    /\ pc = "idle"
    /\ stepper[c].at = "batch"
    /\ ~mqttPublishCallback_ /\ ~mqttConnected => result # "ok"
    /\ LET my     == stepper[c]
           pos    == my.startIndex + my.published
           msg    == Published("status", parameters_[pos + 1].name,
                               parameterToJson(parameters_[pos + 1], mem), pos,
                               my.cycle, result = "ok")
           next   == [stepper EXCEPT ![c].published = my.published + 1]
           holder == xSemaphoreTake(publishMutex_, c)
       IN  IF ChunkDone(my.published, my.toPublish) \/ pos >= Len(parameters_) THEN
               /\ stepper' = [stepper EXCEPT ![c] = NoStep]
               \* PSTOR_LOG_D(..., published, totalParams_ - nextParamIndex_)
               /\ logged' = [logged EXCEPT ![c] = debug]
               /\ UNCHANGED <<isPublishing_, nextParamIndex_, totalParams_, sent, pc,
                              publishMutex_>>
           ELSE IF ~mqttPublishCallback_ /\ ~mqttManager_ THEN
               /\ IF crash THEN pc' = "crashed" /\ UNCHANGED stepper
                           ELSE pc' = pc /\ stepper' = next
               /\ UNCHANGED <<isPublishing_, nextParamIndex_, totalParams_, sent,
                              publishMutex_, logged>>
           ELSE IF ConnectionLost(mqttPublishCallback_, result) THEN
               /\ sent' = sent (+) SetToBag({msg})
               /\ IF holder = c
                  THEN /\ publishMutex_' = holder
                       /\ stepper' = [stepper EXCEPT ![c] = [NoStep EXCEPT !.at = "abort"]]
                  ELSE /\ stepper' = [stepper EXCEPT ![c] = [NoStep EXCEPT !.ret = "timeout"]]
                       /\ UNCHANGED publishMutex_
               /\ UNCHANGED <<isPublishing_, nextParamIndex_, totalParams_, pc, logged>>
           ELSE
               /\ sent' = sent (+) SetToBag({msg})
               /\ stepper' = next
               /\ UNCHANGED <<isPublishing_, nextParamIndex_, totalParams_, pc,
                              publishMutex_, logged>>
    /\ UNCHANGED <<storageVars, mqttVars, commandQueue_, accepted, dispatched, pump,
                   cycle, cur>>

\* continueAsyncPublish in context c after a lost connection, from its take
\* of the mutex to its return
continueAsyncPublish_abort(c) ==
    /\ pc = "idle"
    /\ stepper[c].at = "abort"
    /\ AssignPublishState(StopPublishing(nextParamIndex_, totalParams_))
    /\ publishMutex_' = xSemaphoreGive(publishMutex_, c)
    /\ stepper' = [stepper EXCEPT ![c] = NoStep]
    /\ UNCHANGED <<storageVars, mqttVars, commandQueue_, accepted, dispatched, pump,
                   cycle, sent, pc, cur, logged>>

\* no context is inside a publishAllAsync or continueAsyncPublish call
NoCallRunning == \A c \in Contexts : stepper[c].at = "idle"

NextMutex ==
    \/ RegisterNext
    \/ SetUp /\ NoCallRunning /\ \E connected \in BOOLEAN : setMqttManager(TRUE, connected)
    \/ SetUp /\ NoCallRunning /\ setMqttManager(FALSE, FALSE)
    \/ SetUp /\ \E c \in Contexts : publishAllAsync_take(c)
    \/ \E c \in Contexts : \E ok \in BOOLEAN : publishAllAsync_locked(c, ok)
    \/ \E c \in Contexts : continueAsyncPublish_take(c)
    \/ \E c \in Contexts : continueAsyncPublish_locked(c)
    \/ \E c \in Contexts : \E result \in {"ok", "CONNECTION_FAILED"} :
          \E crash, debug \in BOOLEAN : continueAsyncPublish_publish(c, result, crash, debug)
    \/ \E c \in Contexts : continueAsyncPublish_abort(c)

\* a context that holds the mutex is running (FreeRTOS lets the holder of a
\* mutex inherit the priority of those that wait for it): weak fairness of
\* the sections under the mutex
SpecMutex ==
    /\ Init
    /\ [][NextMutex]_vars
    /\ \A c \in Contexts :
          /\ WF_vars(\E ok \in BOOLEAN : publishAllAsync_locked(c, ok))
          /\ WF_vars(continueAsyncPublish_locked(c))
          /\ WF_vars(continueAsyncPublish_abort(c))

\* C36: nextParamIndex_ never exceeds totalParams_ and totalParams_ never
\* exceeds the number of registered parameters; while isPublishing_ is false
\* both are 0
C36_PublishStateInvariant ==
    /\ nextParamIndex_ <= totalParams_
    /\ totalParams_ <= Len(parameters_)
    /\ ~isPublishing_ => (nextParamIndex_ = 0 /\ totalParams_ = 0)

\* a publish run was stopped by a lost connection mid-batch, after the
\* cursor had been moved past the first chunk
C36_Witness ==
    /\ ~isPublishing_
    /\ cycle > 0
    /\ \E m \in BagToSet(sent) : m.topic = "status" /\ ~m.ok /\ m.pos >= PARAMS_PER_CHUNK
    /\ NoCallRunning


\* isPublishing_, nextParamIndex_ and totalParams_
PublishState == <<isPublishing_, nextParamIndex_, totalParams_>>

\* the sections between a take and its give
Sections == {"publishAll", "continue", "abort"}

\* C34: a call writes isPublishing_, nextParamIndex_ or totalParams_, and
\* reads them, only while its context holds publishMutex_; a call whose
\* take at entry finds the mutex with another context for the whole wait
\* returns without a change to the three and without a publish
C34_StateOnlyUnderMutex ==
    /\ [][PublishState' # PublishState
             => \E c \in Contexts : publishMutex_ = c /\ stepper'[c] # stepper[c]]_vars
    /\ [][\A c \in Contexts :
             (~logged[c] /\ logged'[c]) => publishMutex_ = c]_vars
    /\ [][\A c \in Contexts :
             (/\ stepper[c].at = "idle"
              /\ publishMutex_ \notin {"free", c}
              /\ stepper'[c] # stepper[c])
             => /\ stepper'[c].at = "idle"
                /\ PublishState' = PublishState
                /\ sent' = sent
                /\ publishMutex_' = publishMutex_]_vars

\* C37: a call that took publishMutex_ has given it by its return, whatever
\* the path; a context holds the mutex exactly inside its sections, so the
\* publishes of the parameters are made without it; and a mutex that is
\* held is given again
C37_MutexAlwaysGiven ==
    /\ [][\A c \in Contexts :
             (stepper[c].at # "idle" /\ stepper'[c].at = "idle")
                => publishMutex_' # c]_vars
    /\ [](\A c \in Contexts : publishMutex_ = c <=> stepper[c].at \in Sections)
    /\ [][\A c \in Contexts :
             (stepper[c].at = "batch" /\ stepper'[c] # stepper[c] /\ sent' # sent)
                => publishMutex_ # c]_vars
    /\ \A c \in Contexts : (publishMutex_ = c) ~> (publishMutex_ = "free")

\* one context has published its batch without the mutex while the other
\* is inside continueAsyncPublish with the mutex
C37_Witness ==
    /\ cycle = MutexCycles
    /\ stepper["loop"].at = "batch"
    /\ stepper["loop"].published = stepper["loop"].toPublish
    /\ stepper["loop"].toPublish > 0
    /\ publishMutex_ = "other"
    /\ stepper["other"].at = "continue"


(***************************************************************************)
(* The pump without a transport.                                           *)
(***************************************************************************)
\* C38: with no manager attached and no publish callback set, the dispatch
\* of a queued command of any kind makes no call through mqttManager_,
\* publishes nothing and returns; and the values a dispatch leaves in
\* memory are those it leaves with no transport at all
C38_NoTransportNoDereference ==
    /\ [](\A k \in DOMAIN dispatched :
             (~mqttManager_ /\ ~mqttPublishCallback_)
                => /\ ~dispatched[k].deref
                   /\ Outbound(dispatched[k].fx) = <<>>)
    /\ []((~mqttManager_ /\ ~mqttPublishCallback_) => pc # "crashed")
    /\ [][(/\ pc = "idle" /\ pump.at = "loop" /\ commandQueue_ # <<>>
           /\ Len(dispatched') = Len(dispatched) + 1)
             => mem' = dispatch(Head(commandQueue_), parameters_, mem, nvs, nvsOpen,
                                initialized_, TRUE, FALSE, FALSE, FALSE).mem]_vars


(***************************************************************************)
(* Names longer than the command's paramName buffer: a parameter whose     *)
(* name fills it (47 characters), one whose name is one longer, and one    *)
(* with the longest valid name.                                            *)
(***************************************************************************)
NameFits == Str(ParamNameSize - 1, 97)              \* 47 times "a"
NameOver == Str(ParamNameSize, 97)                  \* 48 times "a"

LongNameArrivals ==
    {<<TopicSet(NameFits), PayloadOne>>, <<TopicSet(NameOver), PayloadOne>>,
     <<TopicSet(NameLongest), PayloadOne>>,
     <<TopicGet(NameFits), <<>>>>, <<TopicGet(NameOver), <<>>>>}

NextLongName ==
    \/ Len(parameters_) = 0 /\ registerInt(NameFits, "int1", 0, 2, ACCESS_READ_WRITE)
    \/ Len(parameters_) = 1 /\ registerInt(NameOver, "int2", 0, 2, ACCESS_READ_WRITE)
    \/ Len(parameters_) = 2 /\ registerBool(NameLongest, "bool1", ACCESS_READ_WRITE)
    \/ Len(parameters_) = 3 /\ accepted = <<>>
          /\ \E callback \in BOOLEAN : setMqttPublishCallback(callback)
    \/ Len(parameters_) = 3 /\ Len(accepted) < PumpDepth
          /\ \E a \in LongNameArrivals : handleMqttCommand(a[1], a[2], TRUE)
    \/ Len(parameters_) = 3 /\ processCommandQueue
    \/ \E crash \in BOOLEAN : processCommandQueue_loop(TRUE, crash)

SpecLongName == Init /\ [][NextLongName]_vars

\* C39: the command queued for a message on <prefix>/set/<name> or
\* <prefix>/get/<name> carries that name, and for a set that payload, for
\* every valid name; and the dispatch of a SET changes no variable but that
\* of the parameter the command names
C39_DispatchedAsReceived ==
    /\ [][\A a \in LongNameArrivals : \A name \in {NameFits, NameOver, NameLongest} :
             (/\ cur'.op = "handleMqttCommand"
              /\ cur'.name = a[1]
              /\ a[1] \in {TopicSet(name), TopicGet(name)}
              /\ Len(accepted') = Len(accepted) + 1)
             => /\ accepted'[Len(accepted')].paramName = name
                /\ accepted'[Len(accepted')].payload = a[2]]_vars
    /\ [][(/\ pc = "idle" /\ pump.at = "loop" /\ commandQueue_ # <<>>
           /\ Len(dispatched') = Len(dispatched) + 1)
             => \A k \in DOMAIN parameters_ :
                   parameters_[k].name # Head(commandQueue_).paramName
                      => mem'[parameters_[k].dataPtr] = mem[parameters_[k].dataPtr]]_vars


(***************************************************************************)
(* Loading and the registered bounds: two int parameters whose names share *)
(* an NVS key, the first registered with [0, 5] or [0, 2], the second with *)
(* [0, 2].                                                                 *)
(***************************************************************************)
NextBounds ==
    \/ begin(TRUE)
    \/ end(SameForAll(TRUE))
    \/ \E maxVal \in {2, 5} : registerInt(NameAa, "int1", 0, maxVal, ACCESS_READ_WRITE)
    \/ registerInt(NameBB, "int2", 0, 2, ACCESS_READ_WRITE)
    \/ \E i \in {0, 5} : CallerWrite("int1", IntV(i))
    \/ save(NameAa, TRUE)
    \/ \E name \in {NameAa, NameBB} : load(name)
    \/ loadAll(FALSE, SameForAll(TRUE))

SpecBounds == Init /\ [][NextBounds]_vars

\* every int parameter of registry m has its value in memory within its
\* [min, max]
WithinBounds_all(m, memory) ==
    \A k \in DOMAIN m :
        m[k].type = TYPE_INT
           => ~IntOutOfRange(memory[m[k].dataPtr].i, m[k].intRange)

\* C40: a load, a loadAll, a begin, or a register call on an initialized
\* storage, made while every int parameter is within its bounds, leaves
\* every int parameter within its bounds, whatever the store holds
C40_LoadKeepsConstraints ==
    [][(/\ \/ cur'.op \in {"load", "loadAll", "begin"}
           \/ cur'.op = "register" /\ initialized_
        /\ WithinBounds_all(parameters_', mem))
          => WithinBounds_all(parameters_', mem')]_vars

====
